---- MODULE Spec2Model ----
(***************************************************************************)
(* State-machine model of the college-backend request handlers and of the  *)
(* Mongoose schema hooks they rely on: popups, page content, blogs,        *)
(* courses and colleges.  Each collection is a function from the ids of    *)
(* its stored documents to records of the fields the handlers read or      *)
(* write.  A handler is one action; where a handler suspends at its store  *)
(* accesses, a second specification runs it as a request that takes one    *)
(* step per store access.                                                  *)
(***************************************************************************)
EXTENDS Integers, Sequences, FiniteSets, TLC

VARIABLES
    popups,      \* popup collection: id -> [isActive, updatedBy]
    popupSeq,    \* number of popup ids issued so far
    contents,    \* content collection: id -> [page, sections, version, isActive, lastUpdatedBy]
    contentSeq,  \* number of content ids issued so far
    blogs,       \* blog collection: id -> [slug, status, publishedAt, views]
    blogSeq,     \* number of blog ids issued so far
    courses,     \* course collection: id -> [title, status, updatedBy, updatedAt]
    colleges,    \* college collection: id -> [name, status, updatedBy, updatedAt]
    users,       \* account collection: id -> [role, permissions, isActive]
    reqs,        \* requests in flight: request id -> its position and local document
    resp         \* the response of the last handler that answered: [op, code]

vars == <<popups, popupSeq, contents, contentSeq, blogs, blogSeq,
          courses, colleges, users, reqs, resp>>

----------------------------------------------------------------------------
(* Bounds of the model *)

MaxPopups == 3
MaxReqs == 2
MaxContents == 5
MaxVersion == 3
MaxBlogs == 2
MaxClock == 2
MaxViews == 1
MaxRecords == 2
MaxAccounts == 2
MaxStored == 2

----------------------------------------------------------------------------
(* Values shared by the handlers *)

NoUser == "none"
Users == {"u1", "u2", "u3"}
\* What req.user may hold on a route whose chain has no auth: the id of an
\* account, or nothing.
ReqUsers == {"u1", "u2", NoUser}

\* An optional request field: <<>> when the body leaves it out, <<v>> otherwise.
Opt(S) == {<<>>} \cup {<<x>> : x \in S}

Given(o) == Len(o) = 1

Answer(op, code) == [op |-> op, code |-> code]

\* A response that carries a message chosen by the handler and the document
\* it saved.
Reply(op, code, message, data) ==
    [op |-> op, code |-> code, message |-> message, data |-> data]

EmptyStore == [i \in {} |-> i]

Insert(store, id, doc) == [i \in DOMAIN store \cup {id} |-> IF i = id THEN doc ELSE store[i]]

Remove(store, id) == [i \in DOMAIN store \ {id} |-> store[i]]

ReqIds == 1..MaxReqs

\* A request that has not arrived yet.
Idle == [pc |-> "idle", id |-> 0, user |-> NoUser, code |-> 0]

NoReqs == [r \in ReqIds |-> Idle]

----------------------------------------------------------------------------
(* Accounts.  hasPermission is the check requirePermission applies. *)

Permissions == {"create_course", "edit_course", "delete_course", "create_college",
                "edit_college", "delete_college", "manage_users", "view_analytics"}

Range(seq) == {seq[i] : i \in DOMAIN seq}

\* rolePermissions
RolePermissions ==
    [admin |-> <<"create_course", "edit_course", "delete_course", "create_college",
                 "edit_college", "delete_college", "manage_users", "view_analytics">>,
     moderator |-> <<"create_course", "edit_course", "create_college", "edit_college",
                     "view_analytics">>,
     user |-> <<>>]

HasPermissionByRole(account, permission) ==
    permission \in Range(RolePermissions[account.role]) \cup account.permissions

\* userSchema.methods.hasPermission
HasPermission(account, permission) ==
    IF account.role = "admin" THEN TRUE ELSE permission \in account.permissions

\* The accounts the runs start with: an admin whose stored set is empty, a
\* moderator granted every catalog permission, and a plain user.
InitUsers ==
    [u \in Users |->
        CASE u = "u1" -> [role |-> "admin", permissions |-> {}, isActive |-> TRUE]
          [] u = "u2" -> [role |-> "moderator",
                          permissions |-> Permissions \ {"manage_users"},
                          isActive |-> TRUE]
          [] OTHER -> [role |-> "user", permissions |-> {}, isActive |-> TRUE]]

\* auth: the bearer credential resolves to an active account, or the request ends 401.
Authenticated(caller) == caller \in DOMAIN users /\ users[caller].isActive

GuardAuthOnly(caller, permission) == IF ~Authenticated(caller) THEN 401 ELSE 0

\* The answer of the chain [auth, requirePermission(p)]: 0 when the handler runs.
Guard(caller, permission) ==
    IF ~Authenticated(caller) THEN 401
    ELSE IF ~HasPermission(users[caller], permission) THEN 403
    ELSE 0

----------------------------------------------------------------------------
(* Popups: popupSchema and routes/popup.js *)

Titles == {"t1", "t2"}
Delays == {1000, 30000}
DelayMin == 5000
DelayMax == 120000

PopupIds == 1..MaxPopups

DelayValid(d) == ~Given(d) \/ (d[1] >= DelayMin /\ d[1] <= DelayMax)

ActivePopups(store) == {i \in DOMAIN store : store[i].isActive}

\* updateMany({_id: {$ne: id}}, {isActive: false})
DeactivateOthers(store, id) ==
    [i \in DOMAIN store |-> IF i # id THEN [store[i] EXCEPT !.isActive = FALSE] ELSE store[i]]

PopupPreSaveNoHook(store, id, doc, modified) == store

PopupPreSaveOnChange(store, id, doc, modified) ==
    IF "isActive" \in modified THEN DeactivateOthers(store, id) ELSE store

\* popupSchema.pre('save'): modified is the set of paths isModified() reports.
\* A path filled in by its schema default is not a modified path.
PopupPreSave(store, id, doc, modified) ==
    IF doc.isActive /\ "isActive" \in modified
    THEN DeactivateOthers(store, id)
    ELSE store

PopupWriteStampOnly(store, id, doc, modified) ==
    [store EXCEPT ![id].updatedBy = doc.updatedBy]

\* save() of a loaded document writes its modified paths to the stored document.
PopupWrite(store, id, doc, modified) ==
    [store EXCEPT ![id] = [f \in DOMAIN store[id] |->
                              IF f \in modified THEN doc[f] ELSE store[id][f]]]

\* new Popup({...}): isActive is not among the fields the handler passes, so it
\* takes its default, true.
NewPopup == [isActive |-> TRUE, updatedBy |-> NoUser]

\* POST /popup
PopupPost(title, content, delay) ==
    /\ popupSeq < MaxPopups
    /\ IF title = "" \/ content = ""
       THEN /\ resp' = Answer("popup.post", 400)
            /\ UNCHANGED <<popups, popupSeq>>
       ELSE IF ~DelayValid(delay)
       THEN /\ resp' = Answer("popup.post", 500)
            /\ UNCHANGED <<popups, popupSeq>>
       ELSE LET id == popupSeq + 1
                doc == NewPopup
                hooked == PopupPreSave(popups, id, doc, {"title", "content"})
            IN /\ popups' = Insert(hooked, id, doc)
               /\ popupSeq' = id
               /\ resp' = Answer("popup.post", 201)
    /\ UNCHANGED <<contents, contentSeq, blogs, blogSeq, courses, colleges, users, reqs>>

\* findByIdAndUpdate(id, update, {runValidators: true}): no save hook runs.
PopupApply(doc, body, user) ==
    [doc EXCEPT !.isActive = IF Given(body.isActive) THEN body.isActive[1] ELSE @,
                !.updatedBy = user]

PopupBodies == [isActive : Opt(BOOLEAN), displayDelay : Opt(Delays)]

\* PUT /popup/:id
PopupPut(id, body, user) ==
    /\ IF user = NoUser
       THEN /\ resp' = Answer("popup.put", 500)
            /\ UNCHANGED popups
       ELSE IF ~DelayValid(body.displayDelay)
       THEN /\ resp' = Answer("popup.put", 500)
            /\ UNCHANGED popups
       ELSE IF id \notin DOMAIN popups
       THEN /\ resp' = Answer("popup.put", 404)
            /\ UNCHANGED popups
       ELSE /\ popups' = [popups EXCEPT ![id] = PopupApply(@, body, user)]
            /\ resp' = Answer("popup.put", 200)
    /\ UNCHANGED <<popupSeq, contents, contentSeq, blogs, blogSeq, courses, colleges,
                   users, reqs>>

\* DELETE /popup/:id
PopupDelete(id) ==
    /\ IF id \notin DOMAIN popups
       THEN /\ resp' = Answer("popup.delete", 404)
            /\ UNCHANGED popups
       ELSE /\ popups' = Remove(popups, id)
            /\ resp' = Answer("popup.delete", 200)
    /\ UNCHANGED <<popupSeq, contents, contentSeq, blogs, blogSeq, courses, colleges,
                   users, reqs>>

\* The document the toggle handler holds after flipping the flag and stamping
\* updatedBy.
Toggled(doc, user) == [doc EXCEPT !.isActive = ~@, !.updatedBy = user]

\* PATCH /popup/:id/toggle, run without another request in between
PopupToggle(id, user) ==
    /\ IF id \notin DOMAIN popups
       THEN /\ resp' = Answer("popup.toggle", 404)
            /\ UNCHANGED popups
       ELSE IF user = NoUser
       THEN /\ resp' = Answer("popup.toggle", 500)
            /\ UNCHANGED popups
       ELSE LET doc == Toggled(popups[id], user)
                modified == {"isActive", "updatedBy"}
                hooked == PopupPreSave(popups, id, doc, modified)
            IN /\ popups' = PopupWrite(hooked, id, doc, modified)
               /\ resp' = Answer("popup.toggle", 200)
    /\ UNCHANGED <<popupSeq, contents, contentSeq, blogs, blogSeq, courses, colleges,
                   users, reqs>>

Init ==
    /\ popups = EmptyStore
    /\ popupSeq = 0
    /\ contents = EmptyStore
    /\ contentSeq = 0
    /\ blogs = EmptyStore
    /\ blogSeq = 0
    /\ courses = EmptyStore
    /\ colleges = EmptyStore
    /\ users = InitUsers
    /\ reqs = NoReqs
    /\ resp = Answer("none", 0)

NextPopup ==
    \/ \E title \in Titles \cup {""}, content \in {"", "c"}, delay \in Opt(Delays) :
          PopupPost(title, content, delay)
    \/ \E id \in PopupIds, body \in PopupBodies, user \in ReqUsers : PopupPut(id, body, user)
    \/ \E id \in PopupIds : PopupDelete(id)
    \/ \E id \in PopupIds, user \in ReqUsers : PopupToggle(id, user)

SpecPopup == Init /\ [][NextPopup]_vars

(* C1: after any sequence of non-overlapping popup operations at most one  *)
(* popup has isActive = true.                                              *)
C1_AtMostOneActive == Cardinality(ActivePopups(popups)) <= 1

(* C2: a toggle applied to an inactive popup that completes leaves that    *)
(* popup active and every other popup inactive, whatever was active before.*)
C2_ToggleActivatesAlone ==
    [][\A id \in PopupIds, user \in ReqUsers :
          (/\ PopupToggle(id, user)
           /\ id \in DOMAIN popups
           /\ ~popups[id].isActive
           /\ resp'.code = 200)
          => ActivePopups(popups') = {id}]_vars

\* A toggle has just activated a popup, and two popups that no handler ever
\* wrote to directly (created active, never stamped) were switched off.
C2_Witness ==
    /\ resp = Answer("popup.toggle", 200)
    /\ \E id \in DOMAIN popups :
          /\ ActivePopups(popups) = {id}
          /\ popups[id].updatedBy # NoUser
          /\ Cardinality({o \in DOMAIN popups :
                             ~popups[o].isActive /\ popups[o].updatedBy = NoUser}) >= 2

----------------------------------------------------------------------------
(* PATCH /popup/:id/toggle as a request that suspends at each store access: *)
(* findById, the hook's updateMany, the write of save().                    *)

ToggleFind(r, id, user) ==
    /\ reqs[r].pc = "idle"
    /\ IF id \notin DOMAIN popups
       THEN /\ reqs' = [reqs EXCEPT ![r] = [pc |-> "done", id |-> id, user |-> user,
                                            code |-> 404]]
            /\ resp' = Answer("popup.toggle", 404)
       ELSE IF user = NoUser
       THEN /\ reqs' = [reqs EXCEPT ![r] = [pc |-> "done", id |-> id, user |-> user,
                                            code |-> 500]]
            /\ resp' = Answer("popup.toggle", 500)
       ELSE /\ reqs' = [reqs EXCEPT ![r] = [pc |-> "save", id |-> id, user |-> user,
                                            code |-> 0,
                                            doc |-> Toggled(popups[id], user)]]
            /\ UNCHANGED resp
    /\ UNCHANGED <<popups, popupSeq, contents, contentSeq, blogs, blogSeq, courses,
                   colleges, users>>

ToggleHook(r) ==
    /\ reqs[r].pc = "save"
    /\ popups' = PopupPreSave(popups, reqs[r].id, reqs[r].doc, {"isActive", "updatedBy"})
    /\ reqs' = [reqs EXCEPT ![r].pc = "write"]
    /\ UNCHANGED <<popupSeq, contents, contentSeq, blogs, blogSeq, courses, colleges,
                   users, resp>>

ToggleWrite(r) ==
    /\ reqs[r].pc = "write"
    /\ IF reqs[r].id \in DOMAIN popups
       THEN /\ popups' = PopupWrite(popups, reqs[r].id, reqs[r].doc,
                                    {"isActive", "updatedBy"})
            /\ reqs' = [reqs EXCEPT ![r].pc = "done", ![r].code = 200]
            /\ resp' = Answer("popup.toggle", 200)
       ELSE /\ reqs' = [reqs EXCEPT ![r].pc = "done", ![r].code = 500]
            /\ resp' = Answer("popup.toggle", 500)
            /\ UNCHANGED popups
    /\ UNCHANGED <<popupSeq, contents, contentSeq, blogs, blogSeq, courses, colleges,
                   users>>

\* The stores the interleaved requests start from: MaxPopups popups, each last
\* written by PUT /popup/:id {isActive} from u1, so any number of them active.
InitPopupRace ==
    /\ popups \in [PopupIds -> [isActive : BOOLEAN, updatedBy : {"u1"}]]
    /\ popupSeq = MaxPopups
    /\ contents = EmptyStore
    /\ contentSeq = 0
    /\ blogs = EmptyStore
    /\ blogSeq = 0
    /\ courses = EmptyStore
    /\ colleges = EmptyStore
    /\ users = InitUsers
    /\ reqs = NoReqs
    /\ resp = Answer("none", 0)

NextPopupRace ==
    \/ \E r \in ReqIds, id \in PopupIds, user \in ReqUsers : ToggleFind(r, id, user)
    \/ \E r \in ReqIds : ToggleHook(r)
    \/ \E r \in ReqIds : ToggleWrite(r)

SpecPopupRace == InitPopupRace /\ [][NextPopupRace]_vars

\* Every request has completed, each having activated a popup of its own.
AllActivated ==
    /\ \A r \in ReqIds : reqs[r].pc = "done" /\ reqs[r].code = 200 /\ reqs[r].doc.isActive
    /\ \A r, q \in ReqIds : r # q => reqs[r].id # reqs[q].id

----------------------------------------------------------------------------
(* Page content: contentSchema and the content router *)

PageKeys == {"home", "about", "contact", "footer"}
PageOrder == <<"home", "about", "contact", "footer">>

\* The pages and section documents the requests of the model carry; "pricing"
\* is a page the schema's enum does not list.  The other pages come into being
\* through initialize.
ReqPages == {"home", "pricing"}
Sections == {"s1", "s2"}
NoSections == ""
DefaultSections == "default"
ContentCallers == {"u1", "u2", NoUser}

DefaultVersion == 1

PageDocs(store, page) == {i \in DOMAIN store : store[i].page = page}

PageTakenNever(store, page) == FALSE

\* page: {unique: true}: the index refuses a second document with the page.
PageTaken(store, page) == PageDocs(store, page) # {}

\* findOne({page}): the document's id, 0 when there is none.
FindPage(store, page) ==
    IF PageDocs(store, page) = {} THEN 0
    ELSE CHOOSE i \in PageDocs(store, page) : \A j \in PageDocs(store, page) : i <= j

\* new Content({page, sections, lastUpdatedBy, isActive}); version takes its default.
NewContent(page, sections, isActive, caller) ==
    [page |-> page, sections |-> sections, version |-> DefaultVersion,
     isActive |-> isActive, lastUpdatedBy |-> caller]

\* The loaded document after the handler's assignments.
Edited(doc, sections, isActive, caller) ==
    [doc EXCEPT !.sections = sections,
                !.lastUpdatedBy = caller,
                !.isActive = IF Given(isActive) THEN isActive[1] ELSE @]

\* The paths isModified() reports for a loaded document: those whose value differs.
ModifiedPaths(old, new) == {f \in DOMAIN old : old[f] # new[f]}

ContentPreSaveAlways(doc, modified) == [doc EXCEPT !.version = @ + 1]

ContentPreSaveNever(doc, modified) == doc

\* contentSchema.pre('save')
ContentPreSave(doc, modified) ==
    IF "sections" \in modified THEN [doc EXCEPT !.version = @ + 1] ELSE doc

\* The document save() is about to insert, after validation and the hook.
\* Every path handed to the constructor of a new document is a modified path.
ToInsert(doc) == ContentPreSave(doc, {"page", "sections", "lastUpdatedBy", "isActive"})

\* The stored document after save() of a loaded one: the hook, then the write
\* of the modified paths.
Saved(stored, old, new) ==
    LET hooked == ContentPreSave(new, ModifiedPaths(old, new))
    IN [f \in DOMAIN stored |-> IF f \in ModifiedPaths(old, hooked) THEN hooked[f] ELSE stored[f]]

PostMessage(doc) == IF doc.version = 1 THEN "created" ELSE "updated"

\* POST /content/:page, run without another request in between
ContentPost(page, sections, isActive, caller) ==
    /\ IF ~Authenticated(caller)
       THEN /\ resp' = Answer("content.post", 401)
            /\ UNCHANGED <<contents, contentSeq>>
       ELSE IF sections = NoSections
       THEN /\ resp' = Answer("content.post", 400)
            /\ UNCHANGED <<contents, contentSeq>>
       ELSE IF FindPage(contents, page) # 0
       THEN LET id == FindPage(contents, page)
                new == Edited(contents[id], sections, isActive, caller)
                after == Saved(contents[id], contents[id], new)
            IN /\ after.version <= MaxVersion
               /\ contents' = [contents EXCEPT ![id] = after]
               /\ resp' = Reply("content.post", 200, PostMessage(after), after)
               /\ UNCHANGED contentSeq
       ELSE IF page \notin PageKeys \/ PageTaken(contents, page)
       THEN /\ resp' = Answer("content.post", 500)
            /\ UNCHANGED <<contents, contentSeq>>
       ELSE LET doc == ToInsert(NewContent(page, sections,
                                           IF Given(isActive) THEN isActive[1] ELSE TRUE,
                                           caller))
            IN /\ contentSeq < MaxContents
               /\ contents' = Insert(contents, contentSeq + 1, doc)
               /\ contentSeq' = contentSeq + 1
               /\ resp' = Reply("content.post", 200, PostMessage(doc), doc)
    /\ UNCHANGED <<popups, popupSeq, blogs, blogSeq, courses, colleges, users, reqs>>

\* DELETE /content/:page
ContentDelete(page, caller) ==
    /\ IF ~Authenticated(caller)
       THEN /\ resp' = Answer("content.delete", 401)
            /\ UNCHANGED contents
       ELSE IF FindPage(contents, page) = 0
       THEN /\ resp' = Answer("content.delete", 404)
            /\ UNCHANGED contents
       ELSE /\ contents' = Remove(contents, FindPage(contents, page))
            /\ resp' = Answer("content.delete", 200)
    /\ UNCHANGED <<popups, popupSeq, contentSeq, blogs, blogSeq, courses, colleges,
                   users, reqs>>

InitializePageReset(st, page, caller) ==
    IF ~st.ok THEN st
    ELSE IF FindPage(st.store, page) # 0
    THEN [st EXCEPT !.store[FindPage(st.store, page)].sections = DefaultSections]
    ELSE [store |-> Insert(st.store, st.seq + 1,
                           ToInsert(NewContent(page, DefaultSections, TRUE, caller))),
          seq |-> st.seq + 1,
          ok |-> TRUE]

\* One round of the initialize loop: findOne, and a save when nothing was found.
\* st is [store, seq, ok]; ok turns false when a save throws, which ends the loop.
InitializePage(st, page, caller) ==
    IF ~st.ok \/ FindPage(st.store, page) # 0 THEN st
    ELSE IF PageTaken(st.store, page) THEN [st EXCEPT !.ok = FALSE]
    ELSE [store |-> Insert(st.store, st.seq + 1,
                           ToInsert(NewContent(page, DefaultSections, TRUE, caller))),
          seq |-> st.seq + 1,
          ok |-> TRUE]

RECURSIVE InitializeFrom(_, _, _)
InitializeFrom(st, k, caller) ==
    IF k > Len(PageOrder) THEN st
    ELSE InitializeFrom(InitializePage(st, PageOrder[k], caller), k + 1, caller)

\* POST /content/admin/initialize, run without another request in between
ContentInitialize(caller) ==
    /\ IF ~Authenticated(caller)
       THEN /\ resp' = Answer("content.initialize", 401)
            /\ UNCHANGED <<contents, contentSeq>>
       ELSE LET st == InitializeFrom([store |-> contents, seq |-> contentSeq, ok |-> TRUE],
                                     1, caller)
            IN /\ st.seq <= MaxContents
               /\ contents' = st.store
               /\ contentSeq' = st.seq
               /\ resp' = Answer("content.initialize", IF st.ok THEN 200 ELSE 500)
    /\ UNCHANGED <<popups, popupSeq, blogs, blogSeq, courses, colleges, users, reqs>>

NextContent ==
    \/ \E page \in ReqPages, sections \in Sections \cup {NoSections},
          isActive \in Opt(BOOLEAN), caller \in ContentCallers :
          ContentPost(page, sections, isActive, caller)
    \/ \E page \in ReqPages, caller \in ContentCallers : ContentDelete(page, caller)
    \/ \E caller \in ContentCallers : ContentInitialize(caller)

SpecContent == Init /\ [][NextContent]_vars

(* C4: POST /content/:page on an existing page record with version v       *)
(* leaves version v + 1 when the submitted sections differ from the stored *)
(* ones and v when they are equal, whether or not isActive changes.  The   *)
(* response's data is the handler's document, whose page and sections are  *)
(* the submitted ones.                                                     *)
C4_VersionTracksSections ==
    [][(/\ resp'.op = "content.post"
        /\ resp'.code = 200
        /\ FindPage(contents, resp'.data.page) # 0)
       => LET id == FindPage(contents, resp'.data.page)
          IN /\ id \in DOMAIN contents'
             /\ contents'[id].sections = resp'.data.sections
             /\ contents'[id].version =
                   IF resp'.data.sections # contents[id].sections
                   THEN contents[id].version + 1
                   ELSE contents[id].version]_vars

\* A page that has been saved again with new sections (its version has moved
\* past the one it was created with) and has had isActive switched off by a
\* save that left the version where it was.
C4_Witness ==
    /\ resp.op = "content.post"
    /\ resp.code = 200
    /\ \E id \in DOMAIN contents :
          /\ contents[id].version = MaxVersion
          /\ ~contents[id].isActive
          /\ contents[id].sections \in Sections
          /\ resp.data = contents[id]

----------------------------------------------------------------------------
(* The content handlers as requests that suspend at each store access.     *)
(* DELETE /content/:page has a single store access, findOneAndDelete, and  *)
(* stays one step.                                                         *)

RaceSections == Sections \cup {NoSections}
RacePosters == {"u1", NoUser}
RaceInitializers == {"u2", NoUser}

\* POST /content/:page up to the end of findOne: the handler holds the loaded
\* document with its assignments made, or a new one.
PostFind(r, page, sections, caller) ==
    /\ reqs[r].pc = "idle"
    /\ reqs' = [reqs EXCEPT ![r] =
          IF ~Authenticated(caller)
          THEN [pc |-> "done", id |-> 0, user |-> caller, code |-> 401, op |-> "post"]
          ELSE IF sections = NoSections
          THEN [pc |-> "done", id |-> 0, user |-> caller, code |-> 400, op |-> "post"]
          ELSE IF FindPage(contents, page) # 0
          THEN [pc |-> "post.save", id |-> FindPage(contents, page), user |-> caller,
                code |-> 0, op |-> "post", isNew |-> FALSE,
                old |-> contents[FindPage(contents, page)],
                new |-> Edited(contents[FindPage(contents, page)], sections, <<>>, caller)]
          ELSE [pc |-> "post.save", id |-> 0, user |-> caller, code |-> 0, op |-> "post",
                isNew |-> TRUE,
                old |-> NewContent(page, sections, TRUE, caller),
                new |-> NewContent(page, sections, TRUE, caller)]]
    /\ resp' = IF reqs'[r].pc = "done" THEN Answer("content.post", reqs'[r].code) ELSE resp
    /\ UNCHANGED <<popups, popupSeq, contents, contentSeq, blogs, blogSeq, courses,
                   colleges, users>>

\* content.save()
PostSave(r) ==
    /\ reqs[r].pc = "post.save"
    /\ IF reqs[r].isNew
       THEN IF reqs[r].new.page \notin PageKeys \/ PageTaken(contents, reqs[r].new.page)
            THEN /\ reqs' = [reqs EXCEPT ![r].pc = "done", ![r].code = 500]
                 /\ resp' = Answer("content.post", 500)
                 /\ UNCHANGED <<contents, contentSeq>>
            ELSE /\ contents' = Insert(contents, contentSeq + 1, ToInsert(reqs[r].new))
                 /\ contentSeq' = contentSeq + 1
                 /\ reqs' = [reqs EXCEPT ![r].pc = "done", ![r].code = 200,
                                         ![r].id = contentSeq + 1]
                 /\ resp' = Reply("content.post", 200, PostMessage(ToInsert(reqs[r].new)),
                                  ToInsert(reqs[r].new))
       ELSE IF ModifiedPaths(reqs[r].old, reqs[r].new) = {}
            THEN /\ reqs' = [reqs EXCEPT ![r].pc = "done", ![r].code = 200]
                 /\ resp' = Reply("content.post", 200, PostMessage(reqs[r].new), reqs[r].new)
                 /\ UNCHANGED <<contents, contentSeq>>
            ELSE IF reqs[r].id \notin DOMAIN contents
            THEN /\ reqs' = [reqs EXCEPT ![r].pc = "done", ![r].code = 500]
                 /\ resp' = Answer("content.post", 500)
                 /\ UNCHANGED <<contents, contentSeq>>
            ELSE LET hooked == ContentPreSave(reqs[r].new,
                                              ModifiedPaths(reqs[r].old, reqs[r].new))
                 IN /\ contents' = [contents EXCEPT ![reqs[r].id] =
                                       Saved(@, reqs[r].old, reqs[r].new)]
                    /\ reqs' = [reqs EXCEPT ![r].pc = "done", ![r].code = 200]
                    /\ resp' = Reply("content.post", 200, PostMessage(hooked), hooked)
                    /\ UNCHANGED contentSeq
    /\ UNCHANGED <<popups, popupSeq, blogs, blogSeq, courses, colleges, users>>

\* POST /content/admin/initialize: through auth, before the first findOne.
InitializeStart(r, caller) ==
    /\ reqs[r].pc = "idle"
    /\ reqs' = [reqs EXCEPT ![r] =
          IF ~Authenticated(caller)
          THEN [pc |-> "done", id |-> 0, user |-> caller, code |-> 401, op |-> "initialize"]
          ELSE [pc |-> "init.find", id |-> 0, user |-> caller, code |-> 0,
                op |-> "initialize", k |-> 1]]
    /\ resp' = IF reqs'[r].pc = "done" THEN Answer("content.initialize", 401) ELSE resp
    /\ UNCHANGED <<popups, popupSeq, contents, contentSeq, blogs, blogSeq, courses,
                   colleges, users>>

\* Where the loop goes once page k is dealt with.
InitializeNext(req) ==
    IF req.k = Len(PageOrder)
    THEN [req EXCEPT !.pc = "done", !.code = 200]
    ELSE [req EXCEPT !.pc = "init.find", !.k = @ + 1]

\* findOne({page: defaultContent.page})
InitializeFind(r) ==
    /\ reqs[r].pc = "init.find"
    /\ reqs' = [reqs EXCEPT ![r] =
          IF FindPage(contents, PageOrder[reqs[r].k]) # 0
          THEN InitializeNext(@)
          ELSE [@ EXCEPT !.pc = "init.save"]]
    /\ resp' = IF reqs'[r].pc = "done" THEN Answer("content.initialize", 200) ELSE resp
    /\ UNCHANGED <<popups, popupSeq, contents, contentSeq, blogs, blogSeq, courses,
                   colleges, users>>

\* content.save() of the default document for page k
InitializeSave(r) ==
    /\ reqs[r].pc = "init.save"
    /\ IF PageTaken(contents, PageOrder[reqs[r].k])
       THEN /\ reqs' = [reqs EXCEPT ![r].pc = "done", ![r].code = 500]
            /\ resp' = Answer("content.initialize", 500)
            /\ UNCHANGED <<contents, contentSeq>>
       ELSE /\ contents' = Insert(contents, contentSeq + 1,
                                  ToInsert(NewContent(PageOrder[reqs[r].k], DefaultSections,
                                                      TRUE, reqs[r].user)))
            /\ contentSeq' = contentSeq + 1
            /\ reqs' = [reqs EXCEPT ![r] = InitializeNext(@)]
            /\ resp' = IF reqs'[r].pc = "done" THEN Answer("content.initialize", 200)
                       ELSE resp
    /\ UNCHANGED <<popups, popupSeq, blogs, blogSeq, courses, colleges, users>>

\* What POST /content/admin/initialize by u1 leaves in an empty collection.
Initialized == InitializeFrom([store |-> EmptyStore, seq |-> 0, ok |-> TRUE], 1, "u1")

InitContentRace ==
    /\ popups = EmptyStore
    /\ popupSeq = 0
    /\ \/ contents = EmptyStore /\ contentSeq = 0
       \/ contents = Initialized.store /\ contentSeq = Initialized.seq
    /\ blogs = EmptyStore
    /\ blogSeq = 0
    /\ courses = EmptyStore
    /\ colleges = EmptyStore
    /\ users = InitUsers
    /\ reqs = NoReqs
    /\ resp = Answer("none", 0)

NextContentRace ==
    \/ \E r \in ReqIds, sections \in RaceSections, caller \in RacePosters :
          PostFind(r, "home", sections, caller)
    \/ \E r \in ReqIds : PostSave(r)
    \/ \E r \in ReqIds, caller \in RaceInitializers : InitializeStart(r, caller)
    \/ \E r \in ReqIds : InitializeFind(r)
    \/ \E r \in ReqIds : InitializeSave(r)
    \/ \E caller \in RacePosters : ContentDelete("home", caller)

SpecContentRace == InitContentRace /\ [][NextContentRace]_vars

\* Requests r and q saved different new sections to the same existing page
\* record, both having read it at the same version, and nothing else ran.
LostUpdate(r, q) ==
    /\ r # q
    /\ \A o \in {r, q} :
          /\ reqs[o].pc = "done"
          /\ reqs[o].op = "post"
          /\ reqs[o].code = 200
          /\ ~reqs[o].isNew
          /\ reqs[o].new.sections # reqs[o].old.sections
    /\ reqs[r].id = reqs[q].id
    /\ reqs[r].old.version = reqs[q].old.version
    /\ reqs[r].new.sections # reqs[q].new.sections
    /\ reqs[r].id \in DOMAIN contents
    /\ \A o \in ReqIds \ {r, q} : reqs[o].pc = "idle"

C6_OneRecordPerPage ==
    \A i, j \in DOMAIN contents : contents[i].page = contents[j].page => i = j

\* Two first saves of the same page both found no record; one inserted it and
\* the other was refused.
C6_Witness ==
    \E r, q \in ReqIds :
        /\ reqs[r].pc = "done" /\ reqs[q].pc = "done"
        /\ reqs[r].op = "post" /\ reqs[q].op = "post"
        /\ reqs[r].code = 200 /\ reqs[q].code = 500
        /\ reqs[r].isNew /\ reqs[q].isNew
        /\ Cardinality(PageDocs(contents, "home")) = 1

----------------------------------------------------------------------------
(* Blogs: blogSchema and the blog router.  The requests of the model carry *)
(* a title, excerpt, content and category within the validators' limits.   *)

Slugs == {"ab", "one", "two"}
SlugMin == 3
SlugMax == 200
BlogStatuses == {"draft", "published", "archived"}
ReqStatuses == BlogStatuses \cup {"bogus"}
Files == {"none", "image", "broken"}
BlogIds == 1..MaxBlogs

\* publishedAt of a blog that never had one.
NoDate == 0

\* new Date(): not earlier than any date already stored.
Now(stamps) == {t \in 1..MaxClock : \A s \in stamps : t >= s}

BlogStamps == {blogs[i].publishedAt : i \in DOMAIN blogs}

SlugDocs(store, slug) == {i \in DOMAIN store : store[i].slug = slug}

BlogPreSaveNoStamp(doc, modified, now) == doc

BlogPreSaveRestamp(doc, modified, now) ==
    IF doc.status = "published" THEN [doc EXCEPT !.publishedAt = now] ELSE doc

\* blogSchema.pre('save')
BlogPreSave(doc, modified, now) ==
    IF "status" \in modified /\ doc.status = "published" /\ doc.publishedAt = NoDate
    THEN [doc EXCEPT !.publishedAt = now]
    ELSE doc

\* new Blog({..., status: blogData.status || 'draft', ...})
NewBlog(slug, status) ==
    [slug |-> slug,
     status |-> IF Given(status) THEN status[1] ELSE "draft",
     publishedAt |-> NoDate,
     views |-> 0]

\* POST /blogs
BlogPost(slug, status, file, now) ==
    /\ blogSeq < MaxBlogs
    /\ IF Len(slug) < SlugMin \/ Len(slug) > SlugMax
       THEN /\ resp' = Answer("blog.post", 400)
            /\ UNCHANGED <<blogs, blogSeq>>
       ELSE IF SlugDocs(blogs, slug) # {}
       THEN /\ resp' = Answer("blog.post", 400)
            /\ UNCHANGED <<blogs, blogSeq>>
       ELSE IF file = "broken"
       THEN /\ resp' = Answer("blog.post", 400)
            /\ UNCHANGED <<blogs, blogSeq>>
       ELSE IF NewBlog(slug, status).status \notin BlogStatuses
       THEN /\ resp' = Answer("blog.post", 500)
            /\ UNCHANGED <<blogs, blogSeq>>
       ELSE /\ blogs' = Insert(blogs, blogSeq + 1,
                               BlogPreSave(NewBlog(slug, status), {"slug", "status"}, now))
            /\ blogSeq' = blogSeq + 1
            /\ resp' = Answer("blog.post", 201)
    /\ UNCHANGED <<popups, popupSeq, contents, contentSeq, courses, colleges, users, reqs>>

\* PUT /blogs/:id.  The update document is built from title, slug, ..., readTime,
\* names the handler never declares: building it throws, the catch answers 500
\* and findByIdAndUpdate is never reached.
BlogPut(id, slug, file) ==
    /\ IF file = "broken"
       THEN resp' = Answer("blog.put", 400)
       ELSE IF Given(slug) /\ SlugDocs(blogs, slug[1]) \ {id} # {}
       THEN resp' = Answer("blog.put", 400)
       ELSE resp' = Answer("blog.put", 500)
    /\ UNCHANGED <<popups, popupSeq, contents, contentSeq, blogs, blogSeq, courses,
                   colleges, users, reqs>>

\* findOne({slug, status: 'published'}): the document's id, 0 when there is none.
FindPublished(store, slug) ==
    IF {i \in SlugDocs(store, slug) : store[i].status = "published"} = {} THEN 0
    ELSE CHOOSE i \in SlugDocs(store, slug) : store[i].status = "published"

\* GET /blogs/:slug: counts the view and saves the document.
BlogGet(slug, now) ==
    /\ IF FindPublished(blogs, slug) = 0
       THEN /\ resp' = Answer("blog.get", 404)
            /\ UNCHANGED blogs
       ELSE LET id == FindPublished(blogs, slug)
                doc == [blogs[id] EXCEPT !.views = @ + 1]
            IN /\ doc.views <= MaxViews
               /\ blogs' = [blogs EXCEPT ![id] = BlogPreSave(doc, {"views"}, now)]
               /\ resp' = Answer("blog.get", 200)
    /\ UNCHANGED <<popups, popupSeq, contents, contentSeq, blogSeq, courses, colleges,
                   users, reqs>>

\* DELETE /blogs/:id
BlogDelete(id) ==
    /\ IF id \notin DOMAIN blogs
       THEN /\ resp' = Answer("blog.delete", 404)
            /\ UNCHANGED blogs
       ELSE /\ blogs' = Remove(blogs, id)
            /\ resp' = Answer("blog.delete", 200)
    /\ UNCHANGED <<popups, popupSeq, contents, contentSeq, blogSeq, courses, colleges,
                   users, reqs>>

NextBlog ==
    \/ \E slug \in Slugs, status \in Opt(ReqStatuses), file \in Files, now \in Now(BlogStamps) :
          BlogPost(slug, status, file, now)
    \/ \E id \in BlogIds, slug \in Opt(Slugs), file \in Files : BlogPut(id, slug, file)
    \/ \E slug \in Slugs, now \in Now(BlogStamps) : BlogGet(slug, now)
    \/ \E id \in BlogIds : BlogDelete(id)

SpecBlog == Init /\ [][NextBlog]_vars

(* C7: in every reachable state every blog whose status is published has a *)
(* publishedAt; no write path leaves a published blog without one.         *)
C7_PublishedHasDate ==
    \A id \in DOMAIN blogs : blogs[id].status = "published" => blogs[id].publishedAt # NoDate

\* A blog was just created with status published and carries the date of its
\* creation, next to a draft that has none.
C7_Witness ==
    /\ resp = Answer("blog.post", 201)
    /\ \E id, d \in DOMAIN blogs :
          /\ blogs[id].status = "published"
          /\ blogs[id].publishedAt = MaxClock
          /\ blogs[d].status = "draft"
          /\ blogs[d].publishedAt = NoDate

(* C8: once a blog's publishedAt is set no operation changes it, the save  *)
(* that counts a view included.                                            *)
C8_PublishedAtSetOnce ==
    [][\A id \in DOMAIN blogs :
          (id \in DOMAIN blogs' /\ blogs[id].publishedAt # NoDate)
          => blogs'[id].publishedAt = blogs[id].publishedAt]_vars

\* A view of a blog was counted and saved after a later blog had been
\* published: the viewed blog still carries its earlier date.
C8_Witness ==
    /\ resp = Answer("blog.get", 200)
    /\ \E id, o \in DOMAIN blogs :
          /\ blogs[id].views > 0
          /\ blogs[id].publishedAt # NoDate
          /\ blogs[o].publishedAt > blogs[id].publishedAt

----------------------------------------------------------------------------
(* Courses and colleges: courseSchema, collegeSchema and their routers.    *)
(* The requests of the model carry a description, category, duration, fees *)
(* and eligibility the validators and the schema accept, and an image only *)
(* as an uploaded file.                                                    *)

CourseTitles == {"ab", "Physics 10"}
TitleMin == 3
TitleMax == 200
TitleSchemaMax == 100
CourseStatuses == {"active", "inactive", "draft"}
CatalogCallers == {"u1", "u2", "u3"}
CollegeNames == {"", "Delhi College"}
RecordIds == 1..MaxRecords

CatalogStamps ==
    {courses[i].updatedAt : i \in DOMAIN courses}
        \cup {colleges[i].updatedAt : i \in DOMAIN colleges}

\* The catalog holds fewer records than the model follows.
CatalogRoom == Cardinality(DOMAIN courses) + Cardinality(DOMAIN colleges) < MaxRecords

\* new Course(req.body) with createdBy and updatedBy set to the caller; status
\* takes its default when the body has none.
NewCourse(title, status, caller, now) ==
    [title |-> title,
     status |-> IF Given(status) THEN status[1] ELSE "active",
     updatedBy |-> caller,
     updatedAt |-> now]

\* POST /courses
CoursePost(title, status, file, caller, now) ==
    /\ CatalogRoom
    /\ IF Guard(caller, "create_course") # 0
       THEN /\ resp' = Answer("course.post", Guard(caller, "create_course"))
            /\ UNCHANGED courses
       ELSE IF Len(title) < TitleMin \/ Len(title) > TitleMax
       THEN /\ resp' = Answer("course.post", 400)
            /\ UNCHANGED courses
       ELSE IF file = "broken"
       THEN /\ resp' = Answer("course.post", 400)
            /\ UNCHANGED courses
       ELSE IF \/ file = "none"
               \/ Len(title) > TitleSchemaMax
               \/ NewCourse(title, status, caller, now).status \notin CourseStatuses
       THEN /\ resp' = Answer("course.post", 500)
            /\ UNCHANGED courses
       ELSE /\ courses' = Insert(courses, Cardinality(DOMAIN courses) + 1,
                                 NewCourse(title, status, caller, now))
            /\ resp' = Answer("course.post", 201)
    /\ UNCHANGED <<popups, popupSeq, contents, contentSeq, blogs, blogSeq, colleges,
                   users, reqs>>

\* findByIdAndUpdate(id, {...req.body, updatedBy, updatedAt}, {runValidators: true})
CourseApply(doc, status, caller, now) ==
    [doc EXCEPT !.status = IF Given(status) THEN status[1] ELSE @,
                !.updatedBy = caller,
                !.updatedAt = now]

\* PUT /courses/:id
CoursePut(id, status, file, caller, now) ==
    /\ IF Guard(caller, "edit_course") # 0
       THEN /\ resp' = Answer("course.put", Guard(caller, "edit_course"))
            /\ UNCHANGED courses
       ELSE IF id \notin DOMAIN courses
       THEN /\ resp' = Answer("course.put", 404)
            /\ UNCHANGED courses
       ELSE IF file = "broken"
       THEN /\ resp' = Answer("course.put", 400)
            /\ UNCHANGED courses
       ELSE IF Given(status) /\ status[1] \notin CourseStatuses
       THEN /\ resp' = Answer("course.put", 500)
            /\ UNCHANGED courses
       ELSE /\ courses' = [courses EXCEPT ![id] = CourseApply(@, status, caller, now)]
            /\ resp' = Answer("course.put", 200)
    /\ UNCHANGED <<popups, popupSeq, contents, contentSeq, blogs, blogSeq, colleges,
                   users, reqs>>

SoftDeleteUnsigned(doc, caller, now) == [doc EXCEPT !.status = "deleted", !.updatedAt = now]

\* findByIdAndUpdate(id, {status: 'deleted', updatedBy, updatedAt}): no validators run.
SoftDelete(doc, caller, now) ==
    [doc EXCEPT !.status = "deleted", !.updatedBy = caller, !.updatedAt = now]

\* DELETE /courses/:id
CourseDelete(id, caller, now) ==
    /\ IF Guard(caller, "delete_course") # 0
       THEN /\ resp' = Answer("course.delete", Guard(caller, "delete_course"))
            /\ UNCHANGED courses
       ELSE IF id \notin DOMAIN courses
       THEN /\ resp' = Answer("course.delete", 404)
            /\ UNCHANGED courses
       ELSE /\ courses' = [courses EXCEPT ![id] = SoftDelete(@, caller, now)]
            /\ resp' = Answer("course.delete", 200)
    /\ UNCHANGED <<popups, popupSeq, contents, contentSeq, blogs, blogSeq, colleges,
                   users, reqs>>

\* new College({name, description, address, image, createdBy, updatedBy})
NewCollege(name, caller, now) ==
    [name |-> name, status |-> "active", updatedBy |-> caller, updatedAt |-> now]

\* POST /colleges
CollegePost(name, file, caller, now) ==
    /\ CatalogRoom
    /\ IF Guard(caller, "create_college") # 0
       THEN /\ resp' = Answer("college.post", Guard(caller, "create_college"))
            /\ UNCHANGED colleges
       ELSE IF name = ""
       THEN /\ resp' = Answer("college.post", 400)
            /\ UNCHANGED colleges
       ELSE IF file = "broken"
       THEN /\ resp' = Answer("college.post", 400)
            /\ UNCHANGED colleges
       ELSE /\ colleges' = Insert(colleges, Cardinality(DOMAIN colleges) + 1,
                                  NewCollege(name, caller, now))
            /\ resp' = Answer("college.post", 201)
    /\ UNCHANGED <<popups, popupSeq, contents, contentSeq, blogs, blogSeq, courses,
                   users, reqs>>

\* The update PUT /colleges/:id builds: name, description and address when the
\* body has them, never status.
CollegeApply(doc, name, caller, now) ==
    [doc EXCEPT !.name = IF name # "" THEN name ELSE @,
                !.updatedBy = caller,
                !.updatedAt = now]

\* PUT /colleges/:id
CollegePut(id, name, file, caller, now) ==
    /\ IF Guard(caller, "edit_college") # 0
       THEN /\ resp' = Answer("college.put", Guard(caller, "edit_college"))
            /\ UNCHANGED colleges
       ELSE IF id \notin DOMAIN colleges
       THEN /\ resp' = Answer("college.put", 404)
            /\ UNCHANGED colleges
       ELSE IF file = "broken"
       THEN /\ resp' = Answer("college.put", 400)
            /\ UNCHANGED colleges
       ELSE /\ colleges' = [colleges EXCEPT ![id] = CollegeApply(@, name, caller, now)]
            /\ resp' = Answer("college.put", 200)
    /\ UNCHANGED <<popups, popupSeq, contents, contentSeq, blogs, blogSeq, courses,
                   users, reqs>>

\* DELETE /colleges/:id
CollegeDelete(id, caller, now) ==
    /\ IF Guard(caller, "delete_college") # 0
       THEN /\ resp' = Answer("college.delete", Guard(caller, "delete_college"))
            /\ UNCHANGED colleges
       ELSE IF id \notin DOMAIN colleges
       THEN /\ resp' = Answer("college.delete", 404)
            /\ UNCHANGED colleges
       ELSE /\ colleges' = [colleges EXCEPT ![id] = SoftDelete(@, caller, now)]
            /\ resp' = Answer("college.delete", 200)
    /\ UNCHANGED <<popups, popupSeq, contents, contentSeq, blogs, blogSeq, courses,
                   users, reqs>>

NextCatalog ==
    \/ \E title \in CourseTitles, status \in Opt({"deleted"}),
          file \in Files, caller \in CatalogCallers, now \in Now(CatalogStamps) :
          CoursePost(title, status, file, caller, now)
    \/ \E id \in RecordIds, status \in Opt({"active", "deleted"}), file \in {"none"},
          caller \in CatalogCallers, now \in Now(CatalogStamps) :
          CoursePut(id, status, file, caller, now)
    \/ \E id \in RecordIds, caller \in CatalogCallers, now \in Now(CatalogStamps) :
          CourseDelete(id, caller, now)
    \/ \E name \in CollegeNames, file \in {"none", "broken"}, caller \in CatalogCallers,
          now \in Now(CatalogStamps) :
          CollegePost(name, file, caller, now)
    \/ \E id \in RecordIds, name \in CollegeNames, file \in {"none"},
          caller \in CatalogCallers, now \in Now(CatalogStamps) :
          CollegePut(id, name, file, caller, now)
    \/ \E id \in RecordIds, caller \in CatalogCallers, now \in Now(CatalogStamps) :
          CollegeDelete(id, caller, now)

SpecCatalog == Init /\ [][NextCatalog]_vars

\* What the claim lets a delete change: status and updatedBy.
Struck(doc, caller) == [doc EXCEPT !.status = "deleted", !.updatedBy = caller]

\* What the handler changes as well: the update stamps updatedAt.
Stamped(doc, caller, now) == [Struck(doc, caller) EXCEPT !.updatedAt = now]

\* C9 as stated: a successful DELETE /courses/:id or DELETE /colleges/:id keeps
\* the set of record ids, sets the target's status to 'deleted' and its
\* updatedBy to the caller, and leaves every other field of the target and
\* every other record unchanged.
C9_DeleteTouchesTwoFields ==
    [][/\ (resp'.op = "course.delete" /\ resp'.code = 200)
          => \A id \in RecordIds, caller \in CatalogCallers, now \in 1..MaxClock :
                CourseDelete(id, caller, now)
                    => /\ DOMAIN courses' = DOMAIN courses
                       /\ courses' = [courses EXCEPT ![id] = Struck(@, caller)]
                       /\ colleges' = colleges
       /\ (resp'.op = "college.delete" /\ resp'.code = 200)
          => \A id \in RecordIds, caller \in CatalogCallers, now \in 1..MaxClock :
                CollegeDelete(id, caller, now)
                    => /\ DOMAIN colleges' = DOMAIN colleges
                       /\ colleges' = [colleges EXCEPT ![id] = Struck(@, caller)]
                       /\ courses' = courses]_vars

\* C9 amended: a successful DELETE /courses/:id or DELETE /colleges/:id keeps
\* the set of record ids, sets the target's status to 'deleted', its updatedBy
\* to the caller and its updatedAt to the time of the request, and leaves every
\* other field of the target and every other record unchanged.
C9_DeleteTouchesThreeFields ==
    [][/\ (resp'.op = "course.delete" /\ resp'.code = 200)
          => \A id \in RecordIds, caller \in CatalogCallers, now \in 1..MaxClock :
                CourseDelete(id, caller, now)
                    => /\ DOMAIN courses' = DOMAIN courses
                       /\ courses'[id].status = "deleted"
                       /\ courses'[id].updatedBy = caller
                       /\ courses' = [courses EXCEPT ![id] = Stamped(@, caller, now)]
                       /\ colleges' = colleges
       /\ (resp'.op = "college.delete" /\ resp'.code = 200)
          => \A id \in RecordIds, caller \in CatalogCallers, now \in 1..MaxClock :
                CollegeDelete(id, caller, now)
                    => /\ DOMAIN colleges' = DOMAIN colleges
                       /\ colleges'[id].status = "deleted"
                       /\ colleges'[id].updatedBy = caller
                       /\ colleges' = [colleges EXCEPT ![id] = Stamped(@, caller, now)]
                       /\ courses' = courses]_vars

\* A college has just been deleted by a caller other than the one who wrote a
\* course deleted earlier, and a later stamp tells the two deletes apart.
C9_Witness ==
    /\ resp = Answer("college.delete", 200)
    /\ \E c \in DOMAIN courses, k \in DOMAIN colleges :
          /\ courses[c].status = "deleted"
          /\ colleges[k].status = "deleted"
          /\ colleges[k].updatedBy # courses[c].updatedBy
          /\ colleges[k].updatedAt > courses[c].updatedAt

\* C10 as stated: once a course's or a college's status is 'deleted', no
\* operation changes that record's status to any other value.
C10_DeletedIsTerminal ==
    [][/\ \A id \in DOMAIN courses :
             courses[id].status = "deleted"
                => id \in DOMAIN courses' /\ courses'[id].status = "deleted"
       /\ \A id \in DOMAIN colleges :
             colleges[id].status = "deleted"
                => id \in DOMAIN colleges' /\ colleges'[id].status = "deleted"]_vars

----------------------------------------------------------------------------
\* C11: after a successful DELETE /blogs/:id the blog record still exists in
\* the store, marked through its status field rather than removed.
C11_BlogDeleteKeepsRecord ==
    [][(resp'.op = "blog.delete" /\ resp'.code = 200)
          => \A id \in BlogIds :
                BlogDelete(id) => id \in DOMAIN blogs' /\ blogs'[id].status \in BlogStatuses]_vars

----------------------------------------------------------------------------
(* Accounts: userSchema, the admin router's user routes and the seed       *)
(* script.  The requests of the model carry a name the validators accept.  *)

Roles == {"admin", "moderator", "user"}
AdminEmail == "admin@admissionshala.com"
Emails == {AdminEmail, "a@x.in", "b@x.in"}
Passwords == {"abc", "admin123456"}
PasswordMin == 6
AccountCallers == {"u1", "u2", "u3", NoUser}

\* Two passwords of 73 bytes that differ in the last one.
LongA == "xxxxxxxxxxxxxxxxxxxxxxxxxxxxxxxxxxxxxxxxxxxxxxxxxxxxxxxxxxxxxxxxxxxxxxxxa"
LongB == "xxxxxxxxxxxxxxxxxxxxxxxxxxxxxxxxxxxxxxxxxxxxxxxxxxxxxxxxxxxxxxxxxxxxxxxxb"
LongHead == "xxxxxxxxxxxxxxxxxxxxxxxxxxxxxxxxxxxxxxxxxxxxxxxxxxxxxxxxxxxxxxxxxxxxxxxx"

\* bcrypt reads at most the first 72 bytes of what it is given.
KeyMax == 72

\* What bcrypt reads of a password.
Key(password) ==
    IF Len(password) <= KeyMax THEN password
    ELSE CASE password = LongA -> LongHead
           [] password = LongB -> LongHead

\* A value of the password path: the text it comes from and the number of
\* times bcrypt.hash was applied to it.  A password as the body gives it:
Plain(password) == [text |-> password, hashed |-> 0]

\* bcrypt.hash(this.password, salt).  The salt is part of the hash and compare
\* reads it back from there; it is left out.
Hash(value) == [text |-> Key(value.text), hashed |-> value.hashed + 1]

\* adminAuth after auth: 0 when the handler runs.
AdminGuard(caller) ==
    IF ~Authenticated(caller) THEN 401
    ELSE IF users[caller].role # "admin" THEN 403
    ELSE 0

\* An :id as it stands in the URL: the account it names and the case of its
\* hexadecimal digits.  The ObjectId cast reads both cases alike; an id turned
\* into a string is lower-case.
IdParams == [id : Users, form : {"lower", "upper"}]

\* findById casts req.params.id to an ObjectId.
CastId(param) == param.id

\* user.id: the string of the account's ObjectId.
IdString(id) == [id |-> id, form |-> "lower"]

\* JSON values a body may hold for isActive: the booleans and two strings.
JsonTrue == [type |-> "boolean", text |-> "true"]
JsonFalse == [type |-> "boolean", text |-> "false"]
StringFalse == [type |-> "string", text |-> "false"]
StringMaybe == [type |-> "string", text |-> "maybe"]

\* express-validator isBoolean(): on the value turned into a string.
IsBoolean(v) == v.text \in {"true", "false", "1", "0"}

\* The Boolean cast of the schema on update.
CastBoolean(v) == v.text \in {"true", "1", "yes"}

\* The account ids in the order the store hands them out.
AccountOrder == <<"u1", "u2", "u3">>

NextAccountId ==
    LET k == CHOOSE i \in 1..Len(AccountOrder) :
                 /\ AccountOrder[i] \notin DOMAIN users
                 /\ \A j \in 1..(i - 1) : AccountOrder[j] \in DOMAIN users
    IN AccountOrder[k]

EmailTaken(email) == \E u \in DOMAIN users : users[u].email = email

\* userSchema.pre('save'): modified is the set of paths isModified() reports; a
\* new document's password is one of them.
UserPreSave(doc, modified) ==
    IF "password" \notin modified THEN doc ELSE [doc EXCEPT !.password = Hash(@)]

\* scripts/seedAdmin.js
SeedAdmin ==
    /\ IF EmailTaken(AdminEmail)
       THEN UNCHANGED users
       ELSE /\ Cardinality(DOMAIN users) < MaxAccounts
            /\ users' = Insert(users, NextAccountId,
                               UserPreSave([role |-> "admin", permissions |-> Permissions,
                                            isActive |-> TRUE, email |-> AdminEmail,
                                            password |-> Plain("admin123456")],
                                           {"email", "password", "role", "isActive",
                                            "permissions"}))
    /\ resp' = Answer("seed", 0)
    /\ UNCHANGED <<popups, popupSeq, contents, contentSeq, blogs, blogSeq, courses,
                   colleges, reqs>>

\* POST /admin/users
UserPost(email, password, role, permissions, caller) ==
    /\ Cardinality(DOMAIN users) < MaxAccounts
    /\ IF AdminGuard(caller) # 0
       THEN /\ resp' = Answer("user.post", AdminGuard(caller))
            /\ UNCHANGED users
       ELSE IF Len(password) < PasswordMin \/ role \notin Roles
       THEN /\ resp' = Answer("user.post", 400)
            /\ UNCHANGED users
       ELSE IF EmailTaken(email)
       THEN /\ resp' = Answer("user.post", 400)
            /\ UNCHANGED users
       ELSE /\ users' = Insert(users, NextAccountId,
                               UserPreSave([role |-> role,
                                            permissions |->
                                                IF Given(permissions) /\ role # "admin"
                                                THEN permissions[1] ELSE {},
                                            isActive |-> TRUE, email |-> email,
                                            password |-> Plain(password)],
                                           {"email", "password", "role", "isActive"}
                                              \cup IF Given(permissions) /\ role # "admin"
                                                   THEN {"permissions"} ELSE {}))
            /\ resp' = Answer("user.post", 201)
    /\ UNCHANGED <<popups, popupSeq, contents, contentSeq, blogs, blogSeq, courses,
                   colleges, reqs>>

UserBodies == [isActive : Opt({JsonTrue, JsonFalse, StringFalse, StringMaybe}),
               role : Opt({"user", "root"})]

\* The $set operator of a body, when it has one: the keys of req.body are
\* handed on to the update as they are, the two deleted ones excepted, and the
\* update applies the operators it finds among them.
SetOperator(body) == IF "set" \in DOMAIN body THEN body.set ELSE <<>>

\* runValidators on the paths of $set (password: minlength) and the unique
\* index on email.
UpdateThrows(id, body) ==
    /\ Given(SetOperator(body))
    /\ \/ Len(SetOperator(body)[1].password) < PasswordMin
       \/ \E u \in DOMAIN users \ {id} : users[u].email = SetOperator(body)[1].email

\* findByIdAndUpdate(id, {...req.body} without the keys password and email,
\* {runValidators: true}): no save hook runs, what $set holds is stored as given.
UserApply(doc, body) ==
    [doc EXCEPT !.isActive = IF Given(body.isActive) THEN CastBoolean(body.isActive[1]) ELSE @,
                !.role = IF Given(body.role) THEN body.role[1] ELSE @,
                !.email = IF Given(SetOperator(body)) THEN SetOperator(body)[1].email ELSE @,
                !.password = IF Given(SetOperator(body))
                             THEN Plain(SetOperator(body)[1].password) ELSE @]

\* req.params.id === req.user.id
SelfCheck(param, caller) == param = IdString(caller)

\* PUT /admin/users/:id
UserPut(param, body, caller) ==
    /\ IF AdminGuard(caller) # 0
       THEN /\ resp' = Answer("user.put", AdminGuard(caller))
            /\ UNCHANGED users
       ELSE IF \/ Given(body.role) /\ body.role[1] \notin Roles
               \/ Given(body.isActive) /\ ~IsBoolean(body.isActive[1])
       THEN /\ resp' = Answer("user.put", 400)
            /\ UNCHANGED users
       ELSE IF CastId(param) \notin DOMAIN users
       THEN /\ resp' = Answer("user.put", 404)
            /\ UNCHANGED users
       ELSE IF SelfCheck(param, caller) /\ Given(body.isActive) /\ body.isActive[1] = JsonFalse
       THEN /\ resp' = Answer("user.put", 400)
            /\ UNCHANGED users
       ELSE IF UpdateThrows(CastId(param), body)
       THEN /\ resp' = Answer("user.put", 500)
            /\ UNCHANGED users
       ELSE /\ users' = [users EXCEPT ![CastId(param)] = UserApply(@, body)]
            /\ resp' = Answer("user.put", 200)
    /\ UNCHANGED <<popups, popupSeq, contents, contentSeq, blogs, blogSeq, courses,
                   colleges, reqs>>

DeactivateRemoves(store, id) == Remove(store, id)

\* findByIdAndUpdate(id, {isActive: false})
Deactivate(store, id) == [store EXCEPT ![id].isActive = FALSE]

\* DELETE /admin/users/:id
UserDelete(param, caller) ==
    /\ IF AdminGuard(caller) # 0
       THEN /\ resp' = Answer("user.delete", AdminGuard(caller))
            /\ UNCHANGED users
       ELSE IF CastId(param) \notin DOMAIN users
       THEN /\ resp' = Answer("user.delete", 404)
            /\ UNCHANGED users
       ELSE IF SelfCheck(param, caller)
       THEN /\ resp' = Answer("user.delete", 400)
            /\ UNCHANGED users
       ELSE /\ users' = Deactivate(users, CastId(param))
            /\ resp' = Answer("user.delete", 200)
    /\ UNCHANGED <<popups, popupSeq, contents, contentSeq, blogs, blogSeq, courses,
                   colleges, reqs>>

\* A database with no account yet.
InitAccounts ==
    /\ popups = EmptyStore
    /\ popupSeq = 0
    /\ contents = EmptyStore
    /\ contentSeq = 0
    /\ blogs = EmptyStore
    /\ blogSeq = 0
    /\ courses = EmptyStore
    /\ colleges = EmptyStore
    /\ users = EmptyStore
    /\ reqs = NoReqs
    /\ resp = Answer("none", 0)

NextAccounts ==
    \/ SeedAdmin
    \/ \E email \in Emails, password \in Passwords, role \in {"admin", "moderator"},
          permissions \in Opt({{"manage_users"}}), caller \in AccountCallers :
          UserPost(email, password, role, permissions, caller)
    \/ \E param \in IdParams, body \in UserBodies, caller \in AccountCallers :
          UserPut(param, body, caller)
    \/ \E param \in IdParams, caller \in AccountCallers : UserDelete(param, caller)

SpecAccounts == InitAccounts /\ [][NextAccounts]_vars

\* C12: no step of the admin user routes or of the seed script takes an
\* account id out of the store, and a successful DELETE /admin/users/:id sets
\* isActive to false on the target, leaves the target's role, permissions,
\* email and secret as they were and leaves every other account unchanged.
C12_AccountsNeverRemoved ==
    [][/\ DOMAIN users \subseteq DOMAIN users'
       /\ (resp'.op = "user.delete" /\ resp'.code = 200)
          => \A param \in IdParams, caller \in AccountCallers :
                UserDelete(param, caller)
                   => /\ CastId(param) \in DOMAIN users'
                      /\ ~users'[CastId(param)].isActive
                      /\ \A f \in {"role", "permissions", "email", "password"} :
                            users'[CastId(param)][f] = users[CastId(param)][f]
                      /\ \A u \in DOMAIN users \ {CastId(param)} : users'[u] = users[u]]_vars

\* The seed script has run, and an admin has just deactivated another account
\* that holds a role and a stored permission.
C12_Witness ==
    /\ resp = Answer("user.delete", 200)
    /\ EmailTaken(AdminEmail)
    /\ \E u \in DOMAIN users :
          /\ ~users[u].isActive
          /\ users[u].role = "moderator"
          /\ users[u].permissions = {"manage_users"}
          /\ users[u].password = Hash(Plain("admin123456"))

\* C13: DELETE /admin/users/:id with the authenticated caller's own id ends
\* 400 and leaves the caller's account unchanged, whatever the caller's role.
C13_SelfDeleteRefused ==
    [][resp'.op = "user.delete"
          => \A param \in IdParams, caller \in AccountCallers :
                (Authenticated(caller) /\ CastId(param) = caller /\ UserDelete(param, caller))
                   => resp'.code = 400 /\ users'[caller] = users[caller]]_vars

\* C14: PUT /admin/users/:id with the caller's own id and a body whose
\* isActive is false in a form the isBoolean validator accepts ends 400 and
\* the caller's stored isActive stays true.
C14_SelfDeactivateRefused ==
    [][resp'.op = "user.put"
          => \A param \in IdParams, body \in UserBodies, caller \in AccountCallers :
                (/\ Authenticated(caller)
                 /\ CastId(param) = caller
                 /\ Given(body.isActive)
                 /\ IsBoolean(body.isActive[1])
                 /\ ~CastBoolean(body.isActive[1])
                 /\ UserPut(param, body, caller))
                   => resp'.code = 400 /\ users'[caller].isActive]_vars

----------------------------------------------------------------------------
(* The methods of userSchema, applied to one account.  The store keeps the  *)
(* permissions of an account as a set; the document a method runs on holds  *)
(* them as an array, in some order and possibly with repeats.               *)

\* [...new Set(array)]: the first occurrence of every value, in order.
RECURSIVE Unique(_)
Unique(array) ==
    IF array = <<>> THEN <<>>
    ELSE LET front == Unique(SubSeq(array, 1, Len(array) - 1))
             last == array[Len(array)]
         IN IF last \in Range(front) THEN front ELSE Append(front, last)

GetPermissionsSpread(role, stored) == RolePermissions[role] \o stored

\* userSchema.methods.getPermissions
GetPermissions(role, stored) == Unique(RolePermissions[role] \o stored)

\* The permissions arrays a document may hold for a stored set.
Arrays(set) ==
    {array \in UNION {[1..n -> set] : n \in 0..MaxStored} : Range(array) = set}

\* What a call of a method returned.
Returned(op, role, stored, arg, result) ==
    [op |-> op, code |-> 0, role |-> role, stored |-> stored, arg |-> arg, result |-> result]

CallGetPermissions(u) ==
    /\ \E stored \in Arrays(users[u].permissions) :
          resp' = Returned("getPermissions", users[u].role, stored, "",
                           GetPermissions(users[u].role, stored))
    /\ UNCHANGED <<popups, popupSeq, contents, contentSeq, blogs, blogSeq, courses,
                   colleges, users, reqs>>

CallHasPermission(u, permission) ==
    /\ resp' = Returned("hasPermission", users[u].role, users[u].permissions, permission,
                        HasPermission(users[u], permission))
    /\ UNCHANGED <<popups, popupSeq, contents, contentSeq, blogs, blogSeq, courses,
                   colleges, users, reqs>>

\* One account of any role with any stored permissions the bound allows.
InitMethods ==
    /\ popups = EmptyStore
    /\ popupSeq = 0
    /\ contents = EmptyStore
    /\ contentSeq = 0
    /\ blogs = EmptyStore
    /\ blogSeq = 0
    /\ courses = EmptyStore
    /\ colleges = EmptyStore
    /\ \E role \in Roles, set \in SUBSET Permissions :
          /\ Cardinality(set) <= MaxStored
          /\ users = [u \in {"u1"} |-> [role |-> role, permissions |-> set, isActive |-> TRUE]]
    /\ reqs = NoReqs
    /\ resp = Answer("none", 0)

NextMethods ==
    \/ \E u \in DOMAIN users : CallGetPermissions(u)
    \/ \E u \in DOMAIN users, permission \in Permissions : CallHasPermission(u, permission)

SpecMethods == InitMethods /\ [][NextMethods]_vars

\* C15: getPermissions returns, without duplicates, exactly the union of the
\* role's default set and the stored permissions: the whole universe for
\* admin, whatever is stored; the five moderator defaults for moderator;
\* nothing for user.
C15_GetPermissionsIsUnion ==
    resp.op = "getPermissions"
       => /\ \A i, j \in DOMAIN resp.result : resp.result[i] = resp.result[j] => i = j
          /\ Range(resp.result) =
                Range(resp.stored) \cup
                   (CASE resp.role = "admin" -> Permissions
                      [] resp.role = "moderator" ->
                            {"create_course", "edit_course", "create_college",
                             "edit_college", "view_analytics"}
                      [] OTHER -> {})
          /\ resp.role = "admin" => Range(resp.result) = Permissions

\* getPermissions has run on a moderator whose array holds delete_course twice.
C15_Witness ==
    /\ resp.op = "getPermissions"
    /\ resp.role = "moderator"
    /\ resp.stored = <<"delete_course", "delete_course">>
    /\ Len(resp.result) = 6

\* C16: hasPermission(p) is true exactly when the role is admin or p is in the
\* stored permissions; the defaults of the role play no part.
C16_HasPermissionReadsStored ==
    resp.op = "hasPermission"
       => (resp.result <=> (resp.role = "admin" \/ resp.arg \in resp.stored))

\* hasPermission has answered false to a moderator with nothing stored, asked
\* for the moderator default create_course.
C16_Witness ==
    /\ resp.op = "hasPermission"
    /\ resp.role = "moderator"
    /\ resp.stored = {}
    /\ resp.arg = "create_course"
    /\ resp.result = FALSE

----------------------------------------------------------------------------
(* The POST, PUT, DELETE and PATCH routes of the five routers, called with  *)
(* no bearer credential: auth, where a chain has it, answers 401, and       *)
(* req.user is never set.                                                   *)

NextAnonymous ==
    \/ \E delay \in Opt(Delays) : PopupPost("t1", "c", delay)
    \/ \E id \in PopupIds, body \in PopupBodies : PopupPut(id, body, NoUser)
    \/ \E id \in PopupIds : PopupDelete(id)
    \/ \E id \in PopupIds : PopupToggle(id, NoUser)
    \/ \E page \in ReqPages, sections \in Sections, isActive \in Opt(BOOLEAN) :
          ContentPost(page, sections, isActive, NoUser)
    \/ \E page \in ReqPages : ContentDelete(page, NoUser)
    \/ ContentInitialize(NoUser)
    \/ \E slug \in Slugs, status \in Opt(ReqStatuses), now \in Now(BlogStamps) :
          BlogPost(slug, status, "none", now)
    \/ \E id \in BlogIds, slug \in Opt(Slugs) : BlogPut(id, slug, "none")
    \/ \E id \in BlogIds : BlogDelete(id)
    \/ \E status \in Opt({"deleted"}), now \in Now(CatalogStamps) :
          CoursePost("Physics 10", status, "image", NoUser, now)
    \/ \E id \in RecordIds, status \in Opt({"active"}), now \in Now(CatalogStamps) :
          CoursePut(id, status, "none", NoUser, now)
    \/ \E id \in RecordIds, now \in Now(CatalogStamps) : CourseDelete(id, NoUser, now)
    \/ \E now \in Now(CatalogStamps) : CollegePost("Delhi College", "none", NoUser, now)
    \/ \E id \in RecordIds, now \in Now(CatalogStamps) :
          CollegePut(id, "Delhi College", "none", NoUser, now)
    \/ \E id \in RecordIds, now \in Now(CatalogStamps) : CollegeDelete(id, NoUser, now)

SpecAnonymous == Init /\ [][NextAnonymous]_vars

\* C17: a POST, PUT, DELETE or PATCH request on colleges, courses, blogs,
\* popups or content that carries no valid bearer credential creates, changes
\* and removes no record in any collection.
C17_AnonymousChangesNothing ==
    [][<<popups, contents, blogs, courses, colleges>>'
          = <<popups, contents, blogs, courses, colleges>>]_vars

----------------------------------------------------------------------------
(* The routes declared with requirePermission: the six course and college  *)
(* routes above and four read routes, which answer without writing.        *)

ReadPermission ==
    [admin_users |-> "manage_users",
     admin_dashboard |-> "view_analytics",
     admin_analytics |-> "view_analytics",
     college_stats |-> "view_analytics"]

\* GET /admin/users, /admin/dashboard, /admin/analytics, /colleges/stats/overview
GuardedGet(route, caller) ==
    /\ resp' = Answer(route, IF Guard(caller, ReadPermission[route]) # 0
                             THEN Guard(caller, ReadPermission[route])
                             ELSE 200)
    /\ UNCHANGED <<popups, popupSeq, contents, contentSeq, blogs, blogSeq, courses,
                   colleges, users, reqs>>

ModeratorDefaults == Range(RolePermissions["moderator"])

\* Empty collections; the moderator account holds nothing, the defaults of its
\* role, or everything but manage_users.
InitGuarded ==
    /\ popups = EmptyStore
    /\ popupSeq = 0
    /\ contents = EmptyStore
    /\ contentSeq = 0
    /\ blogs = EmptyStore
    /\ blogSeq = 0
    /\ courses = EmptyStore
    /\ colleges = EmptyStore
    /\ \E granted \in {{}, ModeratorDefaults, Permissions \ {"manage_users"}} :
          users = [InitUsers EXCEPT !["u2"].permissions = granted]
    /\ reqs = NoReqs
    /\ resp = Answer("none", 0)

\* Every request of these runs arrives at the same instant, 1.
NextGuarded ==
    \/ \E caller \in CatalogCallers :
          CoursePost("Physics 10", <<>>, "image", caller, 1)
    \/ \E id \in RecordIds, status \in Opt({"active"}), caller \in CatalogCallers :
          CoursePut(id, status, "none", caller, 1)
    \/ \E id \in RecordIds, caller \in CatalogCallers :
          CourseDelete(id, caller, 1)
    \/ \E caller \in CatalogCallers :
          CollegePost("Delhi College", "none", caller, 1)
    \/ \E id \in RecordIds, caller \in CatalogCallers :
          CollegePut(id, "Delhi College", "none", caller, 1)
    \/ \E id \in RecordIds, caller \in CatalogCallers :
          CollegeDelete(id, caller, 1)
    \/ \E route \in DOMAIN ReadPermission, caller \in CatalogCallers : GuardedGet(route, caller)

SpecGuarded == InitGuarded /\ [][NextGuarded]_vars

\* The caller is authenticated and hasPermission(permission) is false.
Lacks(caller, permission) ==
    Authenticated(caller) /\ ~HasPermission(users[caller], permission)

\* The answer is 403 and no collection has changed.
Refused ==
    /\ resp'.code = 403
    /\ <<popups, contents, blogs, courses, colleges, users>>'
          = <<popups, contents, blogs, courses, colleges, users>>

\* C18: on every route declared with requirePermission(p), a request from an
\* authenticated account for which hasPermission(p) is false ends 403 with
\* the store unchanged.
C18_MissingPermissionForbidden ==
    [][\A caller \in CatalogCallers :
        /\ (resp'.op = "course.post" /\ Lacks(caller, "create_course"))
              => (CoursePost("Physics 10", <<>>, "image", caller, 1) => Refused)
        /\ (resp'.op = "course.put" /\ Lacks(caller, "edit_course"))
              => \A id \in RecordIds, status \in Opt({"active"}) :
                    CoursePut(id, status, "none", caller, 1) => Refused
        /\ (resp'.op = "course.delete" /\ Lacks(caller, "delete_course"))
              => \A id \in RecordIds :
                    CourseDelete(id, caller, 1) => Refused
        /\ (resp'.op = "college.post" /\ Lacks(caller, "create_college"))
              => (CollegePost("Delhi College", "none", caller, 1) => Refused)
        /\ (resp'.op = "college.put" /\ Lacks(caller, "edit_college"))
              => \A id \in RecordIds :
                    CollegePut(id, "Delhi College", "none", caller, 1) => Refused
        /\ (resp'.op = "college.delete" /\ Lacks(caller, "delete_college"))
              => \A id \in RecordIds :
                    CollegeDelete(id, caller, 1) => Refused
        /\ \A route \in DOMAIN ReadPermission :
              (resp'.op = route /\ Lacks(caller, ReadPermission[route]))
                 => (GuardedGet(route, caller) => Refused)]_vars

\* A moderator holding the defaults of the role has created a college and has
\* just been refused its deletion.
C18_Witness ==
    /\ resp = Answer("college.delete", 403)
    /\ users["u2"].permissions = ModeratorDefaults
    /\ \E k \in DOMAIN colleges :
          colleges[k].updatedBy = "u2" /\ colleges[k].status = "active"

----------------------------------------------------------------------------
(* GET /popup/active, among the other popup routes. *)

FindOneAny(store) ==
    IF DOMAIN store = {} THEN {<<>>}
    ELSE {<<[id |-> i, isActive |-> store[i].isActive]>> : i \in DOMAIN store}

\* Popup.findOne({isActive: true}): null, or one of the matching documents;
\* the query has no sort, so which one is up to the store.
FindOneActive(store) ==
    IF ActivePopups(store) = {} THEN {<<>>}
    ELSE {<<[id |-> i, isActive |-> store[i].isActive]>> : i \in ActivePopups(store)}

\* GET /popup/active
PopupGetActive ==
    /\ \E popup \in FindOneActive(popups) : resp' = Reply("popup.active", 200, "", popup)
    /\ UNCHANGED <<popups, popupSeq, contents, contentSeq, blogs, blogSeq, courses,
                   colleges, users, reqs>>

NextPopupRead ==
    \/ PopupPost("t1", "c", <<>>)
    \/ \E id \in PopupIds, isActive \in Opt(BOOLEAN) :
          PopupPut(id, [isActive |-> isActive, displayDelay |-> <<>>], "u1")
    \/ \E id \in PopupIds : PopupDelete(id)
    \/ \E id \in PopupIds : PopupToggle(id, "u1")
    \/ PopupGetActive

SpecPopupRead == Init /\ [][NextPopupRead]_vars

\* C19: GET /popup/active returns a popup whose isActive is true whenever an
\* active popup exists, returns null exactly when none is active, and changes
\* no popup record.
C19_ActiveOrNull ==
    [][resp'.op = "popup.active"
          => /\ popups' = popups
             /\ ActivePopups(popups) # {}
                   => /\ Given(resp'.data)
                      /\ resp'.data[1].id \in DOMAIN popups
                      /\ popups[resp'.data[1].id].isActive
             /\ ~Given(resp'.data) <=> ActivePopups(popups) = {}]_vars

\* GET /popup/active has answered with one of two active popups while a third
\* is inactive.
C19_Witness ==
    /\ resp.op = "popup.active"
    /\ Given(resp.data)
    /\ Cardinality(ActivePopups(popups)) = 2
    /\ Cardinality(DOMAIN popups) = 3

----------------------------------------------------------------------------
(* GET /colleges.  Strings are spelled out as their characters where the    *)
(* handler looks inside them.  Every college of these runs has the same     *)
(* description and address; ids grow with createdAt.                        *)

ListNames == {"Delhi", "Dolhi"}
ListDescription == "Arts"
ListAddress == "Pune"
Searches == {"delhi", "d.lhi", "pune", "zz", "("}
SortOrders == {"asc", "desc"}
DefaultPage == 1
DefaultLimit == 10
LimitMax == 100
Pages == {0, 1, 2}
Limits == {1, 2, 101}

Spell ==
    ("Delhi" :> <<"D", "e", "l", "h", "i">>) @@ ("Dolhi" :> <<"D", "o", "l", "h", "i">>)
    @@ ("Arts" :> <<"A", "r", "t", "s">>) @@ ("Pune" :> <<"P", "u", "n", "e">>)
    @@ ("delhi" :> <<"d", "e", "l", "h", "i">>) @@ ("d.lhi" :> <<"d", ".", "l", "h", "i">>)
    @@ ("pune" :> <<"p", "u", "n", "e">>) @@ ("zz" :> <<"z", "z">>) @@ ("(" :> <<"(">>)

\* The 'i' flag: letters compare without case.
Lower(c) ==
    CASE c = "D" -> "d"
      [] c = "A" -> "a"
      [] c = "P" -> "p"
      [] OTHER -> c

\* new RegExp(search, 'i') throws on a pattern that does not parse; of the
\* characters in use, an opening parenthesis alone does not.
RegExpParses(pattern) == \A i \in DOMAIN pattern : pattern[i] # "("

TestLiteral(pattern, text) ==
    \E k \in 0..(Len(text) - Len(pattern)) :
       \A i \in DOMAIN pattern : Lower(pattern[i]) = Lower(text[k + i])

\* RegExp.test: the pattern matches somewhere in the text; a dot matches any
\* character.
Test(pattern, text) ==
    \E k \in 0..(Len(text) - Len(pattern)) :
       \A i \in DOMAIN pattern : pattern[i] = "." \/ Lower(pattern[i]) = Lower(text[k + i])

\* The texts the $or of the filter looks at.
SearchFields(doc) == {Spell[doc.name], Spell[ListDescription], Spell[ListAddress]}

FilteredAnyStatus(store, search) ==
    {i \in DOMAIN store :
        Given(search) => \E text \in SearchFields(store[i]) : Test(Spell[search[1]], text)}

\* The filter {status: 'active', $or: [...]}.
Filtered(store, search) ==
    {i \in DOMAIN store :
        /\ store[i].status = "active"
        /\ Given(search) => \E text \in SearchFields(store[i]) : Test(Spell[search[1]], text)}

\* sort({createdAt: 1 or -1})
Sorted(ids, sortOrder) ==
    CHOOSE seq \in [1..Cardinality(ids) -> ids] :
       \A i, j \in 1..Cardinality(ids) :
          i < j => IF sortOrder = "desc" THEN seq[i] > seq[j] ELSE seq[i] < seq[j]

Min(a, b) == IF a < b THEN a ELSE b

\* Math.ceil(total / limit)
Ceil(total, limit) == (total + limit - 1) \div limit

\* GET /colleges
CollegeList(page, limit, search, sortOrder) ==
    /\ IF \/ Given(page) /\ page[1] < 1
          \/ Given(limit) /\ (limit[1] < 1 \/ limit[1] > LimitMax)
       THEN resp' = Answer("college.list", 400)
       ELSE IF Given(search) /\ ~RegExpParses(Spell[search[1]])
       THEN resp' = Answer("college.list", 500)
       ELSE LET p == IF Given(page) THEN page[1] ELSE DefaultPage
                l == IF Given(limit) THEN limit[1] ELSE DefaultLimit
                found == Sorted(Filtered(colleges, search), sortOrder)
                skip == (p - 1) * l
            IN resp' = [op |-> "college.list", code |-> 200,
                        data |-> SubSeq(found, skip + 1, Min(skip + l, Len(found))),
                        pagination |->
                           [currentPage |-> p,
                            totalPages |-> Ceil(Len(found), l),
                            totalItems |-> Len(found),
                            itemsPerPage |-> l,
                            hasNextPage |-> p < Ceil(Len(found), l),
                            hasPrevPage |-> p > 1]]
    /\ UNCHANGED <<popups, popupSeq, contents, contentSeq, blogs, blogSeq, courses,
                   colleges, users, reqs>>

NextCollegeList ==
    \/ \E name \in ListNames : CollegePost(name, "none", "u1", 1)
    \/ \E id \in RecordIds : CollegeDelete(id, "u1", 1)
    \/ \E page \in Opt(Pages), limit \in Opt(Limits), search \in Opt(Searches),
          sortOrder \in SortOrders :
          CollegeList(page, limit, search, sortOrder)

SpecCollegeList == Init /\ [][NextCollegeList]_vars

\* The records the claim has in mind: active, and holding s, letters compared
\* without case, in name, description or address.
Holding(store, search) ==
    {i \in DOMAIN store :
        /\ store[i].status = "active"
        /\ Given(search) => \E text \in SearchFields(store[i]) :
                               TestLiteral(Spell[search[1]], text)}

\* C20: GET /colleges with valid page p and limit l and optional search s
\* answers with at most l records, all active and holding s; they are the
\* records at positions (p-1)*l+1 .. p*l of the sorted matching set;
\* currentPage = p, totalItems = size of the matching set, totalPages =
\* ceil(totalItems / l), hasNextPage iff p < totalPages, hasPrevPage iff p > 1.
C20_ListIsPageOfMatches ==
    [][resp'.op = "college.list" =>
        \A page \in Opt(Pages \ {0}), limit \in Opt(Limits \ {101}), search \in Opt(Searches),
           sortOrder \in SortOrders :
           CollegeList(page, limit, search, sortOrder)
              => LET p == IF Given(page) THEN page[1] ELSE 1
                     l == IF Given(limit) THEN limit[1] ELSE 10
                     all == Sorted(Holding(colleges, search), sortOrder)
                 IN /\ resp'.code = 200
                    /\ Len(resp'.data) <= l
                    /\ \A k \in DOMAIN resp'.data : resp'.data[k] \in Holding(colleges, search)
                    /\ resp'.data = SubSeq(all, (p - 1) * l + 1, Min(p * l, Len(all)))
                    /\ resp'.pagination.currentPage = p
                    /\ resp'.pagination.totalItems = Len(all)
                    /\ resp'.pagination.totalPages = Ceil(Len(all), l)
                    /\ resp'.pagination.hasNextPage <=> p < Ceil(Len(all), l)
                    /\ resp'.pagination.hasPrevPage <=> p > 1]_vars

----------------------------------------------------------------------------
\* C21: POST /courses by a caller holding create_course: with a 2-character
\* title the answer is 400 and no course is created; with a 10-character title
\* and otherwise valid route-level fields the answer is 201, exactly one
\* course is added, and its status is 'active' when the body has no status.
C21_CoursePostOutcome ==
    [][resp'.op = "course.post" =>
        \A title \in CourseTitles, file \in Files \ {"broken"}, caller \in CatalogCallers,
           now \in 1..MaxClock :
           (Guard(caller, "create_course") = 0 /\ CoursePost(title, <<>>, file, caller, now))
              => /\ Len(title) = 2 => (resp'.code = 400 /\ courses' = courses)
                 /\ Len(title) = 10
                       => /\ resp'.code = 201
                          /\ Cardinality(DOMAIN courses' \ DOMAIN courses) = 1
                          /\ \A id \in DOMAIN courses : courses'[id] = courses[id]
                          /\ \A id \in DOMAIN courses' \ DOMAIN courses :
                                courses'[id].status = "active"]_vars

----------------------------------------------------------------------------
\* C22: college names are unique: a POST /colleges whose name is already held
\* by a stored college answers 400 and creates nothing, and in every reachable
\* state no two colleges share a name.
C22_CollegeNamesUnique ==
    \A a \in DOMAIN colleges, b \in DOMAIN colleges :
        colleges[a].name = colleges[b].name => a = b

----------------------------------------------------------------------------
(* Blogs, POST /blogs step by step: the handler awaits Blog.findOne and    *)
(* then blog.save(), and other requests run between the two.               *)

\* slug: { unique: true }: the index refuses an insert whose slug is stored.
SlugIndexed(store, slug) == SlugDocs(store, slug) # {}

\* POST /blogs up to the save: validators, the existence check, the upload.
BlogPostFind(r, slug, status, file) ==
    /\ reqs[r].pc = "idle"
    /\ reqs' = [reqs EXCEPT ![r] =
          IF Len(slug) < SlugMin \/ Len(slug) > SlugMax
          THEN [pc |-> "done", id |-> 0, user |-> NoUser, code |-> 400, op |-> "blog.post",
                new |-> NewBlog(slug, status)]
          ELSE IF SlugDocs(blogs, slug) # {}
          THEN [pc |-> "done", id |-> 0, user |-> NoUser, code |-> 400, op |-> "blog.post",
                new |-> NewBlog(slug, status)]
          ELSE IF file = "broken"
          THEN [pc |-> "done", id |-> 0, user |-> NoUser, code |-> 400, op |-> "blog.post",
                new |-> NewBlog(slug, status)]
          ELSE [pc |-> "blog.save", id |-> 0, user |-> NoUser, code |-> 0, op |-> "blog.post",
                new |-> NewBlog(slug, status)]]
    /\ resp' = Answer("blog.post", reqs'[r].code)
    /\ UNCHANGED <<popups, popupSeq, contents, contentSeq, blogs, blogSeq, courses,
                   colleges, users>>

\* blog.save() and the answer: a validation error or a duplicate key is
\* thrown, and the catch answers 500.
BlogPostSave(r, now) ==
    /\ reqs[r].pc = "blog.save"
    /\ blogSeq < MaxBlogs
    /\ IF reqs[r].new.status \notin BlogStatuses \/ SlugIndexed(blogs, reqs[r].new.slug)
       THEN /\ reqs' = [reqs EXCEPT ![r].pc = "done", ![r].code = 500]
            /\ resp' = Answer("blog.post", 500)
            /\ UNCHANGED <<blogs, blogSeq>>
       ELSE /\ blogs' = Insert(blogs, blogSeq + 1,
                               BlogPreSave(reqs[r].new, {"slug", "status"}, now))
            /\ blogSeq' = blogSeq + 1
            /\ reqs' = [reqs EXCEPT ![r].pc = "done", ![r].code = 201,
                                    ![r].id = blogSeq + 1]
            /\ resp' = Answer("blog.post", 201)
    /\ UNCHANGED <<popups, popupSeq, contents, contentSeq, courses, colleges, users>>

NextBlogRace ==
    \/ \E r \in ReqIds, slug \in Slugs, status \in Opt({"published", "bogus"}), file \in Files :
          BlogPostFind(r, slug, status, file)
    \/ \E r \in ReqIds, now \in Now(BlogStamps) : BlogPostSave(r, now)
    \/ \E id \in BlogIds, slug \in Opt(Slugs), file \in Files : BlogPut(id, slug, file)
    \/ \E id \in BlogIds : BlogDelete(id)

SpecBlogRace == Init /\ [][NextBlogRace]_vars

\* C23: no two blogs ever share a slug, under any interleaving of POST /blogs
\* and PUT /blogs/:id, two creates that both passed the existence check
\* included; and a create or update whose slug another blog holds is answered
\* 400 and changes no record.
C23_SlugUniqueConflict400 ==
    /\ [](\A a \in DOMAIN blogs, b \in DOMAIN blogs : blogs[a].slug = blogs[b].slug => a = b)
    /\ [][/\ \A r \in ReqIds :
                (/\ reqs[r].pc = "blog.save"
                 /\ reqs'[r].pc = "done"
                 /\ SlugDocs(blogs, reqs[r].new.slug) # {})
                   => (reqs'[r].code = 400 /\ blogs' = blogs)
          /\ resp'.op = "blog.put" =>
                \A id \in BlogIds, slug \in Slugs :
                   (BlogPut(id, <<slug>>, "none") /\ SlugDocs(blogs, slug) \ {id} # {})
                      => (resp'.code = 400 /\ blogs' = blogs)]_vars

----------------------------------------------------------------------------
(* Courses and colleges, read by id. *)

\* GET /courses/:id: findById, whatever the status.  views is not a path of
\* courseSchema, so the save that follows writes nothing.
CourseGet(id) ==
    /\ resp' = IF id \in DOMAIN courses
               THEN Reply("course.get", 200, "", courses[id])
               ELSE Answer("course.get", 404)
    /\ UNCHANGED <<popups, popupSeq, contents, contentSeq, blogs, blogSeq, courses,
                   colleges, users, reqs>>

\* GET /colleges/:id: findById, whatever the status.
CollegeGet(id) ==
    /\ resp' = IF id \in DOMAIN colleges
               THEN Reply("college.get", 200, "", colleges[id])
               ELSE Answer("college.get", 404)
    /\ UNCHANGED <<popups, popupSeq, contents, contentSeq, blogs, blogSeq, courses,
                   colleges, users, reqs>>

NextCatalogRead ==
    \/ NextCatalog
    \/ \E id \in RecordIds : CourseGet(id)
    \/ \E id \in RecordIds : CollegeGet(id)

SpecCatalogRead == Init /\ [][NextCatalogRead]_vars

\* C24: once a course or a college is soft-deleted, GET /courses/:id and
\* GET /colleges/:id for its id answer 404, and a DELETE on its id by a caller
\* allowed to delete answers 404 instead of succeeding again.
C24_DeletedIsNotFound ==
    [][/\ resp'.op = "course.get" =>
             \A id \in DOMAIN courses :
                (courses[id].status = "deleted" /\ CourseGet(id)) => resp'.code = 404
       /\ resp'.op = "college.get" =>
             \A id \in DOMAIN colleges :
                (colleges[id].status = "deleted" /\ CollegeGet(id)) => resp'.code = 404
       /\ resp'.op = "course.delete" =>
             \A id \in DOMAIN courses, caller \in CatalogCallers, now \in 1..MaxClock :
                (/\ courses[id].status = "deleted"
                 /\ Guard(caller, "delete_course") = 0
                 /\ CourseDelete(id, caller, now)) => resp'.code = 404
       /\ resp'.op = "college.delete" =>
             \A id \in DOMAIN colleges, caller \in CatalogCallers, now \in 1..MaxClock :
                (/\ colleges[id].status = "deleted"
                 /\ Guard(caller, "delete_college") = 0
                 /\ CollegeDelete(id, caller, now)) => resp'.code = 404]_vars

----------------------------------------------------------------------------
(* Accounts: the stored secret. *)

SecretPasswords == {"abc", "admin123456", LongA, LongB}

\* userSchema.methods.comparePassword: bcrypt.compare(candidate, this.password)
\* hashes the candidate with the salt of the stored hash and compares.
ComparePassword(candidate, stored) == stored = Hash(Plain(candidate))

\* save() of a loaded account after the given assignments: the paths whose
\* value changed are modified, a modified password is validated (minlength)
\* and then hashed by the hook.  The response records the call.
UserSave(id, password, isActive) ==
    /\ id \in DOMAIN users
    /\ LET modified == (IF Given(password) THEN {"password"} ELSE {})
                          \cup (IF Given(isActive) /\ isActive[1] # users[id].isActive
                                THEN {"isActive"} ELSE {})
           doc == [users[id] EXCEPT
                      !.password = IF Given(password) THEN Plain(password[1]) ELSE @,
                      !.isActive = IF Given(isActive) THEN isActive[1] ELSE @]
       IN IF Given(password) /\ Len(password[1]) < PasswordMin
          THEN /\ resp' = Reply("user.save", 500, "", [id |-> id, password |-> password])
               /\ UNCHANGED users
          ELSE /\ users' = [users EXCEPT ![id] = UserPreSave(doc, modified)]
               /\ resp' = Reply("user.save", 0, "", [id |-> id, password |-> password])
    /\ UNCHANGED <<popups, popupSeq, contents, contentSeq, blogs, blogSeq, courses,
                   colleges, reqs>>

\* Bodies of PUT /admin/users/:id: one that deactivates, one that changes the
\* role, one that names the password at the top level and inside $set.
SecretBodies == {[isActive |-> <<JsonFalse>>, role |-> <<>>],
                 [isActive |-> <<>>, role |-> <<"user">>],
                 [isActive |-> <<>>, role |-> <<>>, password |-> <<"secret1">>,
                  set |-> <<[email |-> "a@x.in", password |-> "secret1"]>>]}

NextSecrets ==
    \/ SeedAdmin
    \/ \E email \in Emails, password \in SecretPasswords, caller \in AccountCallers :
          UserPost(email, password, "moderator", <<>>, caller)
    \/ \E param \in IdParams, body \in SecretBodies, caller \in AccountCallers :
          UserPut(param, body, caller)
    \/ \E id \in Users, password \in Opt(SecretPasswords), isActive \in Opt(BOOLEAN) :
          UserSave(id, password, isActive)

SpecSecrets == InitAccounts /\ [][NextSecrets]_vars

\* The stored value is the hash of p, taken once, and comparePassword accepts
\* p and no other candidate.
SetOnce(stored, p) ==
    /\ stored = Hash(Plain(p))
    /\ stored # Plain(p)
    /\ stored # Hash(Hash(Plain(p)))
    /\ \A q \in SecretPasswords : ComparePassword(q, stored) <=> q = p

\* Every step treats the stored secrets as the claim says.
SecretSteps ==
    /\ resp'.op = "seed" =>
          \A u \in DOMAIN users' \ DOMAIN users :
             SetOnce(users'[u].password, "admin123456")
    /\ (resp'.op = "user.post" /\ resp'.code = 201) =>
          \A email \in Emails, password \in SecretPasswords, caller \in AccountCallers :
             (/\ AdminGuard(caller) = 0
              /\ \E u \in DOMAIN users' \ DOMAIN users : users'[u].email = email
              /\ UserPost(email, password, "moderator", <<>>, caller))
                => \A u \in DOMAIN users' \ DOMAIN users :
                      SetOnce(users'[u].password, password)
    /\ (resp'.op = "user.save" /\ resp'.code = 0) =>
          /\ \E isActive \in Opt(BOOLEAN) :
                UserSave(resp'.data.id, resp'.data.password, isActive)
          /\ IF Given(resp'.data.password)
             THEN SetOnce(users'[resp'.data.id].password, resp'.data.password[1])
             ELSE users'[resp'.data.id].password = users[resp'.data.id].password
          /\ \A u \in DOMAIN users \ {resp'.data.id} :
                users'[u].password = users[u].password
    /\ \A u \in DOMAIN users :
          (resp'.op \in {"user.put", "user.post", "seed"} \/ resp'.code # 0)
             => users'[u].password = users[u].password

\* C25 as stated: the stored secret is hash(p) for the password p most recently
\* set, never p and never hash(hash(p)); a save that does not modify the
\* secret, and every admin update, leaves it as it is; and comparePassword(q)
\* is true exactly when q = p.
C25_HashedOncePerChange == [][SecretSteps]_vars

----------------------------------------------------------------------------
\* C26: a content record created by the first save for its page, through
\* POST /content/:page or POST /content/admin/initialize, is stored with
\* version 1; and POST /content/:page says 'created' exactly when it created
\* the record and 'updated' when it changed an existing one.
C26_FirstSaveIsVersionOne ==
    [][/\ (resp'.op \in {"content.post", "content.initialize"} /\ resp'.code = 200)
             => \A id \in DOMAIN contents' \ DOMAIN contents : contents'[id].version = 1
       /\ (resp'.op = "content.post" /\ resp'.code = 200)
             => LET id == FindPage(contents, resp'.data.page)
                IN /\ resp'.message = "created" <=> id = 0
                   /\ (id # 0 /\ contents'[id] # contents[id]) => resp'.message = "updated"]_vars

----------------------------------------------------------------------------
\* The pages that have a record.
StoredPages(store) == {store[i].page : i \in DOMAIN store}

\* C27: POST /content/admin/initialize leaves every existing content record
\* as it is, creates one record for each of home, about, contact and footer
\* that has none and no other record, and a second run right after the first
\* changes nothing.
C27_InitializeOnlyAddsMissing ==
    [][(resp'.op = "content.initialize" /\ resp'.code = 200)
       => /\ \A id \in DOMAIN contents : id \in DOMAIN contents' /\ contents'[id] = contents[id]
          /\ {contents'[id].page : id \in DOMAIN contents' \ DOMAIN contents}
                = PageKeys \ StoredPages(contents)
          /\ Cardinality(DOMAIN contents' \ DOMAIN contents)
                = Cardinality(PageKeys \ StoredPages(contents))
          /\ \A caller \in ContentCallers :
                Authenticated(caller)
                   => InitializeFrom([store |-> contents', seq |-> contentSeq', ok |-> TRUE],
                                     1, caller)
                         = [store |-> contents', seq |-> contentSeq', ok |-> TRUE]]_vars

\* Initialize has just answered; the home page is a record that was saved
\* again by somebody else, with its own sections, and the other three pages
\* hold the default sections.
C27_Witness ==
    /\ resp = Answer("content.initialize", 200)
    /\ StoredPages(contents) = PageKeys
    /\ \E id \in DOMAIN contents :
          /\ contents[id].page = "home"
          /\ contents[id].sections \in Sections
          /\ contents[id].version = MaxVersion
          /\ \A o \in DOMAIN contents \ {id} :
                /\ contents[o].sections = DefaultSections
                /\ contents[o].lastUpdatedBy # contents[id].lastUpdatedBy

----------------------------------------------------------------------------
(* PUT /admin/users/:id with bodies that name email and password, at the   *)
(* top level and inside a $set operator.                                   *)

UpdateBodies ==
    [isActive : Opt({JsonFalse}),
     role : Opt({"user"}),
     email : Opt({"b@x.in"}),
     password : Opt({"secret1"}),
     set : Opt([email : {"a@x.in", "b@x.in"}, password : {"abc", "secret1"}])]

NextAccountUpdate ==
    \/ SeedAdmin
    \/ \E email \in Emails, role \in {"admin", "moderator"}, caller \in AccountCallers :
          UserPost(email, "admin123456", role, <<>>, caller)
    \/ \E param \in IdParams, body \in UpdateBodies, caller \in AccountCallers :
          UserPut(param, body, caller)

SpecAccountUpdate == InitAccounts /\ [][NextAccountUpdate]_vars

\* C28: PUT /admin/users/:id leaves the email and the stored secret of every
\* account as they were, whatever the body holds, and an answer of 400 or 404
\* leaves the accounts unchanged.
C28_UpdateKeepsEmailAndSecret ==
    [][resp'.op = "user.put" =>
          /\ DOMAIN users' = DOMAIN users
          /\ \A u \in DOMAIN users :
                /\ users'[u].email = users[u].email
                /\ users'[u].password = users[u].password
          /\ resp'.code \in {400, 404} => users' = users]_vars

----------------------------------------------------------------------------
\* C29: a toggle that completes on an active popup leaves that popup inactive
\* and every other popup as it was, active ones included, so that no popup is
\* activated in its place; a delete of an active popup takes that popup away
\* and leaves every other popup as it was.
C29_DeactivationTouchesOne ==
    [][\A id \in DOMAIN popups :
          popups[id].isActive =>
             /\ (/\ resp'.op = "popup.toggle"
                 /\ resp'.code = 200
                 /\ \E user \in ReqUsers : PopupToggle(id, user))
                   => /\ DOMAIN popups' = DOMAIN popups
                      /\ ~popups'[id].isActive
                      /\ \A o \in DOMAIN popups \ {id} : popups'[o] = popups[o]
             /\ (/\ resp'.op = "popup.delete"
                 /\ resp'.code = 200
                 /\ PopupDelete(id))
                   => /\ DOMAIN popups' = DOMAIN popups \ {id}
                      /\ \A o \in DOMAIN popups \ {id} : popups'[o] = popups[o]]_vars

\* A toggle has just completed and two popups are active: the toggle cannot
\* have activated one, so it switched the third popup off and left the two
\* active ones alone.
C29_Witness ==
    /\ resp = Answer("popup.toggle", 200)
    /\ Cardinality(ActivePopups(popups)) = 2
    /\ \E id \in DOMAIN popups : ~popups[id].isActive /\ popups[id].updatedBy # NoUser

----------------------------------------------------------------------------
(* GET /courses.  Every course of these runs has the same description,     *)
(* category and level and the schema's defaults for featured and trending. *)

ListCategory == "Arts"
ListLevel == "Beginner"
ListFeatured == FALSE
ListTrending == FALSE
Categories == {"Arts"}
Levels == {"Beginner", "Expert"}
LevelsAllowed == {"Beginner", "Intermediate", "Advanced"}
Flags == {"false"}

\* The texts the $or of the course filter looks at.
CourseSearchFields(doc) == {Spell[doc.title], Spell[ListDescription], Spell[ListCategory]}

\* The filter {status: 'active', category, level, featured, trending, $or}.
CourseFiltered(store, category, level, featured, trending, search) ==
    {i \in DOMAIN store :
        /\ store[i].status = "active"
        /\ Given(category) => Test(Spell[category[1]], Spell[ListCategory])
        /\ Given(level) => ListLevel = level[1]
        /\ Given(featured) => ListFeatured = (featured[1] = "true")
        /\ Given(trending) => ListTrending = (trending[1] = "true")
        /\ Given(search) => \E text \in CourseSearchFields(store[i]) :
                               Test(Spell[search[1]], text)}

\* GET /courses
CourseList(page, limit, category, level, featured, trending, search, sortOrder) ==
    /\ IF \/ Given(page) /\ page[1] < 1
          \/ Given(limit) /\ (limit[1] < 1 \/ limit[1] > LimitMax)
          \/ Given(level) /\ level[1] \notin LevelsAllowed
          \/ Given(featured) /\ featured[1] \notin {"true", "false", "1", "0"}
          \/ Given(trending) /\ trending[1] \notin {"true", "false", "1", "0"}
       THEN resp' = Answer("course.list", 400)
       ELSE IF \/ Given(category) /\ ~RegExpParses(Spell[category[1]])
               \/ Given(search) /\ ~RegExpParses(Spell[search[1]])
       THEN resp' = Answer("course.list", 500)
       ELSE LET p == IF Given(page) THEN page[1] ELSE DefaultPage
                l == IF Given(limit) THEN limit[1] ELSE DefaultLimit
                found == Sorted(CourseFiltered(courses, category, level, featured, trending,
                                               search), sortOrder)
                skip == (p - 1) * l
            IN resp' = [op |-> "course.list", code |-> 200,
                        data |-> SubSeq(found, skip + 1, Min(skip + l, Len(found))),
                        pagination |->
                           [currentPage |-> p,
                            totalPages |-> Ceil(Len(found), l),
                            totalItems |-> Len(found),
                            itemsPerPage |-> l,
                            hasNextPage |-> p < Ceil(Len(found), l),
                            hasPrevPage |-> p > 1]]
    /\ UNCHANGED <<popups, popupSeq, contents, contentSeq, blogs, blogSeq, courses,
                   colleges, users, reqs>>

NextLists ==
    \/ \E title \in ListNames : CoursePost(title, <<>>, "image", "u1", 1)
    \/ \E id \in RecordIds, status \in Opt({"inactive", "active"}) :
          CoursePut(id, status, "none", "u1", 1)
    \/ \E id \in RecordIds : CourseDelete(id, "u1", 1)
    \/ \E name \in ListNames : CollegePost(name, "none", "u1", 1)
    \/ \E id \in RecordIds, name \in ListNames : CollegePut(id, name, "none", "u1", 1)
    \/ \E id \in RecordIds : CollegeDelete(id, "u1", 1)
    \/ \E page \in Opt({2}), limit \in Opt({1}), category \in Opt(Categories),
          level \in Opt(Levels), featured \in Opt(Flags), search \in Opt({"d.lhi", "("}) :
          CourseList(page, limit, category, level, featured, <<>>, search, "desc")
    \/ \E page \in Opt({2}), trending \in {"true", "maybe"}, sortOrder \in SortOrders :
          CourseList(page, <<1>>, <<>>, <<>>, <<>>, <<trending>>, <<>>, sortOrder)
    \/ \E page \in Opt({2}), limit \in Opt({1}), search \in Opt({"d.lhi", "("}),
          sortOrder \in SortOrders :
          CollegeList(page, limit, search, sortOrder)

SpecLists == Init /\ [][NextLists]_vars

\* C30: GET /courses and GET /colleges answer with active records only,
\* whatever the page, limit, search, filter and sort parameters are and
\* whatever creations, updates and deletions came before.
C30_ListsOnlyActive ==
    [][/\ (resp'.op = "course.list" /\ resp'.code = 200)
             => \A k \in DOMAIN resp'.data :
                   /\ resp'.data[k] \in DOMAIN courses
                   /\ courses[resp'.data[k]].status = "active"
       /\ (resp'.op = "college.list" /\ resp'.code = 200)
             => \A k \in DOMAIN resp'.data :
                   /\ resp'.data[k] \in DOMAIN colleges
                   /\ colleges[resp'.data[k]].status = "active"]_vars

\* GET /colleges has just listed an active college while a soft-deleted one
\* is stored.
C30_Witness ==
    /\ resp.op = "college.list"
    /\ resp.code = 200
    /\ Len(resp.data) = 1
    /\ \E id \in DOMAIN colleges : colleges[id].status = "deleted"

====
